---- MODULE Spec2Model ----
(***************************************************************************)
(* GPS tracker gateway: the TCP sessions (GPSTrackerConnection), the       *)
(* device registry and command dispatcher (TCPServer) and the binary codec *)
(* (ProtocolParser) of server/app.                                         *)
(*                                                                         *)
(* Packets are sequences of bytes (0..255).  Python's packet[i] is         *)
(* At(packet, i) and packet[a:b] is Slice(packet, a, b), so the offsets    *)
(* below are the offsets of the source.                                    *)
(***************************************************************************)
EXTENDS Integers, Sequences, FiniteSets, TLC

\* ------------------------------------------------------------------ bounds
\* send_command calls that reach a connection in one run.
MaxCommands == 2

\* The connections the listener accepts in one run (a session and the one that
\* follows or supersedes it) and the HTTP requests that can be in progress at
\* the same time.
Conns == {1, 2}
Tasks == {1, 2}

\* ------------------------------------------------------- bytes and integers
At(p, i) == p[i + 1]
Slice(p, a, b) == IF b > a THEN SubSeq(p, a + 1, b) ELSE << >>
\* p[-k:-j] of Python, for 0 < j < k <= Len(p)
Tail2(p, k) == <<p[Len(p) - k + 1], p[Len(p) - k + 2]>>

RECURSIVE BitXor(_, _)
BitXor(a, b) ==
    IF a = 0 THEN b
    ELSE IF b = 0 THEN a
    ELSE ((a + b) % 2) + 2 * BitXor(a \div 2, b \div 2)

\* struct.pack('>H', v), struct.pack('>I', v)
PackH(v) == <<(v \div 256) % 256, v % 256>>
PackI(v) == <<(v \div 16777216) % 256, (v \div 65536) % 256, (v \div 256) % 256, v % 256>>
\* struct.unpack('>H', b)[0], struct.unpack('>I', b)[0]
UnpackH(b) == b[1] * 256 + b[2]
UnpackI(b) == ((b[1] * 256 + b[2]) * 256 + b[3]) * 256 + b[4]

\* ------------------------------------------------------------ ProtocolParser
PACKET_LOGIN == 1
PACKET_LOCATION == 18
PACKET_HEARTBEAT == 19
PACKET_STRING_INFO == 21
PACKET_ALARM == 22
PACKET_COMMAND == 128
START_BIT == <<120, 120>>
STOP_BIT == <<13, 10>>

CrcPoly == 33800    \* 0x8408
CrcSeed == 65535    \* 0xFFFF

RECURSIVE CrcShift(_, _)
CrcShift(crc, n) ==
    IF n = 0 THEN crc
    ELSE CrcShift(IF crc % 2 = 1 THEN BitXor(crc \div 2, CrcPoly) ELSE crc \div 2, n - 1)

RECURSIVE CrcBytes(_, _, _)
CrcBytes(crc, data, i) ==
    \* (crc < 0 never holds: the test makes TLC evaluate crc before the next byte)
    IF i > Len(data) \/ crc < 0 THEN crc
    ELSE CrcBytes(CrcShift(BitXor(crc, data[i]), 8), data, i + 1)

calculate_crc(data) == BitXor(CrcBytes(CrcSeed, data, 1), CrcSeed)

HexDigit == <<"0", "1", "2", "3", "4", "5", "6", "7", "8", "9", "A", "B", "C", "D", "E", "F">>
\* f'{b:02X}'
Hex2(b) == HexDigit[(b \div 16) + 1] \o HexDigit[(b % 16) + 1]

RECURSIVE HexJoin(_)
HexJoin(bs) == IF bs = << >> THEN "" ELSE Hex2(Head(bs)) \o HexJoin(Tail(bs))

NoPacket == [type |-> "none"]

parse_login(packet) ==
    IF Len(packet) < 15 THEN NoPacket
    ELSE [type |-> "login",
          protocol |-> PACKET_LOGIN,
          imei |-> HexJoin(Slice(packet, 4, 12)),
          serial_number |-> UnpackH(Slice(packet, 12, 14))]
\* datetime(year, month, day, hour, minute, second) raises ValueError
DaysInMonth(year, month) ==
    IF month \in {4, 6, 9, 11} THEN 30
    ELSE IF month = 2 THEN (IF year % 4 = 0 /\ (year % 100 # 0 \/ year % 400 = 0) THEN 29 ELSE 28)
    ELSE 31

ValidDateTime(year, month, day, hour, minute, second) ==
    /\ month \in 1..12
    /\ day \in 1..DaysInMonth(year, month)
    /\ hour < 24 /\ minute < 60 /\ second < 60

\* variant: bit 10 read with the opposite sense (1 = South)
SignedLatitudeInverted(lat_raw, lat_bit, force_south) ==
    IF lat_bit = 1 THEN -lat_raw
    ELSE IF force_south /\ lat_raw > 0 THEN -lat_raw
    ELSE lat_raw

\* variant: the configuration flag is not consulted
SignedLatitudeUnforced(lat_raw, lat_bit, force_south) ==
    IF lat_bit = 0 THEN -lat_raw ELSE lat_raw

\* if lat_bit == 0: latitude = -latitude
\* elif settings.FORCE_SOUTHERN_HEMISPHERE and latitude > 0: latitude = -latitude
SignedLatitude(lat_raw, lat_bit, force_south) ==
    IF lat_bit = 0 THEN -lat_raw
    ELSE IF force_south /\ lat_raw > 0 THEN -lat_raw
    ELSE lat_raw

\* Latitude and longitude are kept in the wire unit (1/1800000 degree): the
\* source divides the raw value by 1800000.0 and then only changes its sign.
parse_location(packet, force_south) ==
    IF Len(packet) < 30 THEN NoPacket
    ELSE
    LET idx == 4
        year == 2000 + At(packet, idx)
        month == At(packet, idx + 1)
        day == At(packet, idx + 2)
        hour == At(packet, idx + 3)
        minute == At(packet, idx + 4)
        second == At(packet, idx + 5)
        dt == IF ValidDateTime(year, month, day, hour, minute, second)
              THEN <<year, month, day, hour, minute, second>>
              ELSE <<"utcnow">>
        gps_info == At(packet, 10)
        satellite_count == gps_info % 16
        lat_raw == UnpackI(Slice(packet, 11, 15))
        lon_raw == UnpackI(Slice(packet, 15, 19))
        speed == At(packet, 19)
        course_status == UnpackH(Slice(packet, 20, 22))
        course == course_status % 1024
        lat_bit == (course_status \div 1024) % 2
        lon_bit == (course_status \div 2048) % 2
        gps_real == (course_status \div 4096) % 2
        latitude == SignedLatitude(lat_raw, lat_bit, force_south)
        longitude == IF lon_bit = 1 THEN -lon_raw ELSE lon_raw
    IN [type |-> "location",
        protocol |-> PACKET_LOCATION,
        timestamp |-> dt,
        latitude |-> latitude,
        longitude |-> longitude,
        speed |-> speed,
        course |-> course,
        satellites |-> satellite_count,
        gps_valid |-> (gps_real # 0),
        serial_number |-> UnpackH(Tail2(packet, 6))]

BatteryPercent(voltage_level) ==
    CASE voltage_level = 0 -> 0
      [] voltage_level = 1 -> 10
      [] voltage_level = 2 -> 25
      [] voltage_level = 3 -> 40
      [] voltage_level = 4 -> 60
      [] voltage_level = 5 -> 80
      [] voltage_level = 6 -> 100
      [] OTHER -> 50

Min(a, b) == IF a < b THEN a ELSE b

\* GSM_SIGNAL_LEVELS[min(gsm_signal, 4)]['bars']
SignalBars(gsm_signal) == Min(gsm_signal, 4)

parse_heartbeat(packet) ==
    IF Len(packet) < 15 THEN NoPacket
    ELSE
    LET terminal_info == At(packet, 4)
        voltage_level == At(packet, 5)
        gsm_signal == At(packet, 6)
    IN [type |-> "heartbeat",
        protocol |-> PACKET_HEARTBEAT,
        voltage_level |-> voltage_level,
        battery_percent |-> BatteryPercent(voltage_level),
        gsm_signal |-> gsm_signal,
        signal_bars |-> SignalBars(gsm_signal),
        gps_tracking |-> ((terminal_info \div 64) % 2 = 1),
        acc_status |-> ((terminal_info \div 2) % 2 = 1),
        charging |-> ((terminal_info \div 4) % 2 = 1),
        alarm_status |-> (terminal_info \div 8) % 8,
        serial_number |-> UnpackH(Tail2(packet, 6))]

AlarmName(alarm_byte) ==
    CASE alarm_byte = 0 -> "Normal"
      [] alarm_byte = 1 -> "SOS"
      [] alarm_byte = 2 -> "Power cut"
      [] alarm_byte = 3 -> "Shock"
      [] alarm_byte = 4 -> "Enter fence"
      [] alarm_byte = 5 -> "Exit fence"
      [] alarm_byte = 6 -> "Over speed"
      [] alarm_byte = 7 -> "Ignition on"
      [] alarm_byte = 8 -> "Ignition off"
      [] alarm_byte = 9 -> "AC on"
      [] alarm_byte = 10 -> "AC off"
      [] OTHER -> "Unknown (0x" \o Hex2(alarm_byte) \o ")"

parse_alarm(packet, force_south) ==
    LET location_data == parse_location(packet, force_south) IN
    IF location_data.type = "none" THEN NoPacket
    ELSE
    LET base == [location_data EXCEPT !.type = "alarm", !.protocol = PACKET_ALARM]
        lbs_length == At(packet, 22)
        status_offset == 22 + lbs_length
        alarm_offset == status_offset + 3
    IN IF Len(packet) > 23 /\ Len(packet) > alarm_offset
       THEN [f \in DOMAIN base \cup {"alarm_type", "acc_status", "gps_tracking",
                                      "battery_percent", "signal_bars"} |->
               CASE f = "alarm_type" -> AlarmName(At(packet, alarm_offset))
                 [] f = "acc_status" -> ((At(packet, status_offset) \div 2) % 2 = 1)
                 [] f = "gps_tracking" -> ((At(packet, status_offset) \div 64) % 2 = 1)
                 [] f = "battery_percent" -> BatteryPercent(At(packet, status_offset + 1))
                 [] f = "signal_bars" -> SignalBars(At(packet, status_offset + 2))
                 [] OTHER -> base[f]]
       ELSE base

\* bytes.decode('ascii', errors='replace'): a byte >= 0x80 becomes U+FFFD
ReplacementChar == 65533
DecodeAscii(bs) == [i \in 1..Len(bs) |-> IF bs[i] < 128 THEN bs[i] ELSE ReplacementChar]

\* variant: the server flag read one byte early
parse_command_response_early_flag(packet) ==
    IF Len(packet) < 17 THEN NoPacket
    ELSE
    LET cmd_length == At(packet, 4)
        server_flag == UnpackI(Slice(packet, 4, 8))
        content_length == cmd_length - 4
    IN IF content_length < 0 \/ Len(packet) < 9 + content_length THEN NoPacket
       ELSE [type |-> "command_response",
             protocol |-> PACKET_STRING_INFO,
             server_flag |-> server_flag,
             content |-> DecodeAscii(Slice(packet, 9, Min(9 + content_length, Len(packet)))),
             serial_number |-> UnpackH(Tail2(packet, 6))]

parse_command_response(packet) ==
    IF Len(packet) < 17 THEN NoPacket
    ELSE
    LET cmd_length == At(packet, 4)
        server_flag == UnpackI(Slice(packet, 5, 9))
        content_length == cmd_length - 4
    IN IF content_length < 0 \/ Len(packet) < 9 + content_length THEN NoPacket
       ELSE [type |-> "command_response",
             protocol |-> PACKET_STRING_INFO,
             server_flag |-> server_flag,
             content |-> DecodeAscii(Slice(packet, 9, Min(9 + content_length, Len(packet)))),
             serial_number |-> UnpackH(Tail2(packet, 6))]

\* parse_packet's CRC verification: the two values it compares (a mismatch is
\* logged and parsing continues)
CalculatedCrc(packet) == calculate_crc(Slice(packet, 2, Len(packet) - 4))
PacketCrc(packet) == UnpackH(Tail2(packet, 4))

\* variant: the stop marker is not looked at
parse_packet_any_stop(packet, force_south) ==
    IF Len(packet) < 7 THEN NoPacket
    ELSE IF Slice(packet, 0, 2) # START_BIT THEN NoPacket
    ELSE IF Len(packet) # At(packet, 2) + 5 THEN NoPacket
    ELSE
    LET protocol_number == At(packet, 3) IN
    CASE protocol_number = PACKET_LOGIN -> parse_login(packet)
      [] protocol_number = PACKET_LOCATION -> parse_location(packet, force_south)
      [] protocol_number = PACKET_HEARTBEAT -> parse_heartbeat(packet)
      [] protocol_number = PACKET_STRING_INFO -> parse_command_response(packet)
      [] protocol_number = PACKET_ALARM -> parse_alarm(packet, force_south)
      [] OTHER -> [type |-> "unknown", protocol |-> protocol_number]

\* variant: a CRC mismatch returns None
parse_packet_crc_checked(packet, force_south) ==
    IF Len(packet) < 7 THEN NoPacket
    ELSE IF Slice(packet, 0, 2) # START_BIT THEN NoPacket
    ELSE IF Tail2(packet, 2) # STOP_BIT THEN NoPacket
    ELSE IF Len(packet) # At(packet, 2) + 5 THEN NoPacket
    ELSE IF CalculatedCrc(packet) # PacketCrc(packet) THEN NoPacket
    ELSE
    LET protocol_number == At(packet, 3) IN
    CASE protocol_number = PACKET_LOGIN -> parse_login(packet)
      [] protocol_number = PACKET_LOCATION -> parse_location(packet, force_south)
      [] protocol_number = PACKET_HEARTBEAT -> parse_heartbeat(packet)
      [] protocol_number = PACKET_STRING_INFO -> parse_command_response(packet)
      [] protocol_number = PACKET_ALARM -> parse_alarm(packet, force_south)
      [] OTHER -> [type |-> "unknown", protocol |-> protocol_number]

\* (the CRC is computed and compared, and a mismatch only logged)
parse_packet(packet, force_south) ==
    IF Len(packet) < 7 THEN NoPacket
    ELSE IF Slice(packet, 0, 2) # START_BIT THEN NoPacket
    ELSE IF Tail2(packet, 2) # STOP_BIT THEN NoPacket
    ELSE IF Len(packet) # At(packet, 2) + 5 THEN NoPacket
    ELSE
    LET protocol_number == At(packet, 3) IN
    CASE protocol_number = PACKET_LOGIN -> parse_login(packet)
      [] protocol_number = PACKET_LOCATION -> parse_location(packet, force_south)
      [] protocol_number = PACKET_HEARTBEAT -> parse_heartbeat(packet)
      [] protocol_number = PACKET_STRING_INFO -> parse_command_response(packet)
      [] protocol_number = PACKET_ALARM -> parse_alarm(packet, force_south)
      [] OTHER -> [type |-> "unknown", protocol |-> protocol_number]

\* variant: the serial number packed low byte first
create_response_little_endian(packet_type, serial_number) ==
    LET response_data == <<5, packet_type, serial_number % 256, (serial_number \div 256) % 256>>
    IN START_BIT \o response_data \o PackH(calculate_crc(response_data)) \o STOP_BIT

\* variant: the CRC taken over the whole frame so far, start bits included
create_response_crc_from_start(packet_type, serial_number) ==
    LET response_data == <<5, packet_type>> \o PackH(serial_number)
    IN START_BIT \o response_data \o PackH(calculate_crc(START_BIT \o response_data))
          \o STOP_BIT

\* 78 78 05 [protocol] [serial 2 bytes] [CRC 2 bytes] 0D 0A
create_response(packet_type, serial_number) ==
    LET response_data == <<5, packet_type>> \o PackH(serial_number)
    IN START_BIT \o response_data \o PackH(calculate_crc(response_data)) \o STOP_BIT

\* None when command.encode('ascii') or bytearray.append(packet_length) raises
NoFrame == << >>
create_command_packet(command, serial_number, server_flag) ==
    IF \E i \in 1..Len(command) : command[i] > 127 THEN NoFrame
    ELSE IF 10 + Len(command) > 255 THEN NoFrame
    ELSE
    LET cmd_length == 4 + Len(command)
        packet_length == 10 + Len(command)
        data == <<packet_length, PACKET_COMMAND, cmd_length>> \o PackI(server_flag)
                  \o command \o PackH(serial_number)
    IN START_BIT \o data \o PackH(calculate_crc(data)) \o STOP_BIT

\* ------------------------------------------------------------ device side
\* What a tracker puts on the wire (layouts of the parser's docstrings):
\* 78 78 | length | protocol | body | serial | CRC | 0D 0A.
WireFrame(protocol, body, serial) ==
    LET data == <<Len(body) + 5, protocol>> \o body \o PackH(serial)
    IN START_BIT \o data \o PackH(calculate_crc(data)) \o STOP_BIT

IMEI_X == <<1, 35, 69, 103, 137, 1, 35, 69>>       \* 01 23 45 67 89 01 23 45
IMEI_Y == <<8, 104, 18, 1, 72, 55, 53, 113>>        \* 08 68 12 01 48 37 35 71
IMEIBytes == {IMEI_X, IMEI_Y}
IMEIs == {HexJoin(b) : b \in IMEIBytes}

\* 2020-01-22 18:00:00, 5 satellites
GpsBlock(lat_raw, lon_raw, speed, course_status) ==
    <<20, 1, 22, 18, 0, 0>> \o <<197>> \o PackI(lat_raw) \o PackI(lon_raw)
       \o <<speed>> \o PackH(course_status)

LbsBlock == <<0, 0, 0, 0, 0, 0, 0, 0>>

Wire(d) ==
    CASE d.kind = "login" -> WireFrame(PACKET_LOGIN, d.imei, d.serial)
      [] d.kind = "location" ->
            WireFrame(PACKET_LOCATION,
                      GpsBlock(d.lat, d.lon, d.speed, d.course_status) \o LbsBlock, d.serial)
      [] d.kind = "heartbeat" ->
            WireFrame(PACKET_HEARTBEAT, <<d.terminal_info, d.voltage, d.gsm, 0, 2>>, d.serial)
      [] d.kind = "alarm" ->
            WireFrame(PACKET_ALARM,
                      GpsBlock(d.lat, d.lon, d.speed, d.course_status) \o <<9>> \o LbsBlock
                         \o <<d.terminal_info, d.voltage, d.gsm, d.alarm, 2>>, d.serial)
      [] d.kind = "reply" ->
            WireFrame(PACKET_STRING_INFO,
                      <<4 + Len(d.content)>> \o PackI(d.flag) \o d.content \o <<0, 2>>, d.serial)
      [] d.kind = "unknown" -> WireFrame(d.proto, << >>, d.serial)
      [] d.kind = "badstop" ->
            LET f == WireFrame(PACKET_LOGIN, d.imei, d.serial)
            IN SubSeq(f, 1, Len(f) - 1) \o <<0>>

\* Serial numbers the trackers use (0x0001, 0x0102)
Serials == {1, 258}
\* the wire unit of latitude and longitude is 1/1800000 degree
OneDegree == 1800000

LoginPackets == [kind : {"login"}, imei : {IMEI_X}, serial : {1}]
LocationPackets ==
    [kind : {"location"}, lat : {OneDegree}, lon : {OneDegree}, speed : {40},
     course_status : {4096}, serial : {1}]
HeartbeatPackets ==
    [kind : {"heartbeat"}, terminal_info : {67}, voltage : {5}, gsm : {3}, serial : {258}]
AlarmPackets ==
    [kind : {"alarm"}, lat : {OneDegree}, lon : {OneDegree}, speed : {0},
     course_status : {5120}, terminal_info : {67}, voltage : {4}, gsm : {2},
     alarm : {1}, serial : {258}]
\* replies: "OK" with server flag 1, "B8" with server flag 0xA001
ReplyPackets ==
    {[kind |-> "reply", flag |-> 1, content |-> <<79, 75>>, serial |-> 1],
     [kind |-> "reply", flag |-> 40961, content |-> <<66, 56>>, serial |-> 258]}
UnknownPackets == [kind : {"unknown"}, proto : {23}, serial : {258}]
BadPackets == [kind : {"badstop"}, imei : {IMEI_X}, serial : {1}]

Packets ==
    LoginPackets \cup LocationPackets \cup HeartbeatPackets \cup AlarmPackets
       \cup ReplyPackets \cup UnknownPackets \cup BadPackets

NoPkt == [kind |-> "none"]

\* the Logins of a tracker under either identity
ReloginPackets == [kind : {"login"}, imei : {IMEI_X, IMEI_Y}, serial : {1}]

\* the frames of Packets, computed once
WireTable == {<<d, Wire(d)>> : d \in Packets \cup ReloginPackets}
\* (a packet that is no tracker's frame is its own bytes)
WireOf(d) == IF d.kind = "raw" THEN d.bytes ELSE (CHOOSE e \in WireTable : e[1] = d)[2]

\* the store is used by the handlers of these packets only
UsesStore(d) == d.kind \in {"login", "location", "heartbeat", "alarm"}
StoreOutcomes(d) == IF UsesStore(d) THEN BOOLEAN ELSE {TRUE}

\* the protocol byte and the serial number a frame carries on the wire
WireProto(packet) == At(packet, 3)
WireSerial(packet) == UnpackH(Tail2(packet, 6))

\* commands the HTTP callers send: "STATUS#" and a non-ASCII string
Commands == {<<83, 84, 65, 84, 85, 83, 35>>, <<233>>}

\* ------------------------------------------------------------------- state
None == "None"
\* core/config.py: the default of settings.FORCE_SOUTHERN_HEMISPHERE
FORCE_SOUTHERN_HEMISPHERE == TRUE
NoConn == 0
NoTask == 0
CommandSerialStart == 40960    \* 0xA000

VARIABLES
    status,             \* per connection: "new" (not accepted yet), "open", "closed"
    device_imei,        \* GPSTrackerConnection.device_imei
    authenticated,      \* GPSTrackerConnection.authenticated
    command_serial,     \* GPSTrackerConnection._command_serial
    pending_response,   \* GPSTrackerConnection._pending_response: the task whose future it is
    writer_closed,      \* writer.close() was called
    connections,        \* TCPServer.connections
    device_connections, \* TCPServer.device_connections
    devices,            \* devices table: imei -> "absent" | "online" | "offline"
    future,             \* the future each send_command call created
    task,               \* the HTTP callers of send_command_to_device
    force_south,        \* settings.FORCE_SOUTHERN_HEMISPHERE
    ncmd,               \* history: send_command calls made on each connection
    last,               \* history: the step taken last and what it wrote
    buffer,             \* GPSTrackerConnection.buffer
    handle_pc,          \* GPSTrackerConnection.handle: "read" | "process"
    handling,           \* the packets handed to handle_packet calls that have
                        \* not returned yet
    wire,               \* the byte stream of one tracker and (history) what
                        \* became of it
    lifespan,           \* main.lifespan: where it is, whether the TCP server
                        \* listens, whether _trip_stale_checker runs
    now,                \* datetime.utcnow() of the server
    trips,              \* trips table
    trip_seq,           \* the id the trips table gave last
    locations,          \* locations table (its gps-valid rows), in order of
                        \* insertion
    device_rows,        \* devices table: last_connect and last_update by id
    talk                \* history: the bytes written to each socket, and which
                        \* command each reply of a tracker answers

vars == <<status, device_imei, authenticated, command_serial, pending_response,
          writer_closed, connections, device_connections, devices, future, task,
          force_south, ncmd, last, buffer, handle_pc, handling, wire,
          lifespan, now, trips, trip_seq, locations, device_rows, talk>>

\* the variables of the byte-level receive path
framing == <<buffer, handle_pc, handling, wire>>

\* the variables of the trips API and the stale-trip checker
tripstore == <<now, trips, trip_seq, locations, device_rows>>

\* what the TCP server's handlers leave alone
apart == <<lifespan, tripstore, talk>>

\* the devices the trips are recorded for (devices.id)
TripDevices == {1}

\* the application is up: lifespan has yielded
Serving == [pc |-> "serving", listening |-> TRUE, watchdog |-> "running"]
\* NULL in a DateTime column, and in an id column
NoTime == -1
NoLocation == 0
NoTrip == 0
NoDeviceRow == [last_connect |-> NoTime, last_update |-> NoTime]

\* wire: the bytes one tracker sends, how many of them reader.read() has
\* returned, the packets process_buffer has sliced off the buffer (with the
\* count of stream bytes up to the slice's last one), the packets handle_packet
\* has dealt with (with the number of bytes that had arrived by then and the
\* frames written in reply),
\* and the packets handed over when the whole stream comes in one read.
\* NoWire: no tracker stream is followed, packets reach handle_packet whole
NoWire ==
    [stream |-> << >>, arrived |-> 0, framed |-> << >>, dispatched |-> << >>,
     reference |-> << >>]

\* a future: its state, its result, and (history) the packet that resolved it
NoFuture == [st |-> "none", data |-> NoPacket, from |-> NoPkt]
NoReturn == [kind |-> "none"]
NoSerial == -1
\* nothing written, no command sent, no reply heard
NoTalk ==
    [sock |-> [c \in Conns |-> << >>], acks |-> 0, sent |-> [c \in Conns |-> {}],
     call |-> [t \in Tasks |-> NoSerial], heard |-> [t \in Tasks |-> NoSerial],
     intime |-> [t \in Tasks |-> FALSE], late |-> [t \in Tasks |-> FALSE]]
IdleTask == [pc |-> "idle", conn |-> NoConn]

\* last: the operation, its connection, task and packet (for "resume": the
\* reply that resolved the call's future), the frames it wrote, the registry
\* entry or waiter it found in place, the store's outcome, what it returned
\* to the HTTP caller, and the location rows it added to the store
Step(op, c, t, d, wrote, displaced, store_ok, ret) ==
    [op |-> op, conn |-> c, task |-> t, pkt |-> d, wrote |-> wrote,
     displaced |-> displaced, store_ok |-> store_ok, ret |-> ret,
     stored |-> << >>]

Init ==
    /\ status = [c \in Conns |-> "new"]
    /\ device_imei = [c \in Conns |-> None]
    /\ authenticated = [c \in Conns |-> FALSE]
    /\ command_serial = [c \in Conns |-> CommandSerialStart]
    /\ pending_response = [c \in Conns |-> NoTask]
    /\ writer_closed = [c \in Conns |-> FALSE]
    /\ connections = {}
    /\ device_connections = [i \in IMEIs |-> NoConn]
    /\ devices = [i \in IMEIs |-> "absent"]
    /\ future = [t \in Tasks |-> NoFuture]
    /\ task = [t \in Tasks |-> IdleTask]
    /\ force_south = FORCE_SOUTHERN_HEMISPHERE
    /\ ncmd = [c \in Conns |-> 0]
    /\ last = Step("init", NoConn, NoTask, NoPkt, << >>, NoConn, TRUE, NoReturn)
    /\ buffer = [c \in Conns |-> << >>]
    /\ handle_pc = [c \in Conns |-> "read"]
    /\ handling = [c \in Conns |-> << >>]
    /\ wire = NoWire
    /\ lifespan = Serving
    /\ now = 0
    /\ trips = {}
    /\ trip_seq = 0
    /\ locations = << >>
    /\ device_rows = [d \in TripDevices |-> NoDeviceRow]
    /\ talk = NoTalk

\* ------------------------------------------------------------- TCPServer
\* handle_client: a new GPSTrackerConnection joins the connection set; the
\* asyncio Server calls it for a connection it accepts while it listens
handle_client(c) ==
    /\ lifespan.listening
    /\ status[c] = "new"
    /\ \A b \in Conns : b < c => status[b] # "new"
    /\ status' = [status EXCEPT ![c] = "open"]
    /\ connections' = connections \cup {c}
    /\ last' = Step("accept", c, NoTask, NoPkt, << >>, NoConn, TRUE, NoReturn)
    /\ UNCHANGED <<device_imei, authenticated, command_serial, pending_response,
                   writer_closed, device_connections, devices, future, task,
                   force_south, ncmd, framing, apart>>

register_device(reg, imei, c) == [reg EXCEPT ![imei] = c]

unregister_device(reg, imei) ==
    IF reg[imei] # NoConn THEN [reg EXCEPT ![imei] = NoConn] ELSE reg

\* send_data: writer.write(data); a closed transport drops the bytes
\* variant: the frame is handed to the writer in pieces, the first before an await
send_data_in_pieces(c, data) == IF writer_closed[c] THEN << >> ELSE <<Slice(data, 0, 4)>>
send_data(c, data) == IF writer_closed[c] THEN << >> ELSE <<data>>

\* ------------------------------------------------- GPSTrackerConnection
\* handle_login: the device row is stored and the connection registered only
\* when the store calls do not raise
LoginDevices(imei, store_ok) ==
    IF store_ok THEN [devices EXCEPT ![imei] = "online"] ELSE devices

LoginRegistry(c, imei, store_ok) ==
    IF store_ok THEN register_device(device_connections, imei, c) ELSE device_connections

\* handle_location / handle_heartbeat: device.status = 'online' when the
\* connection is authenticated, the row exists and the store does not raise
TouchDevices(c, store_ok) ==
    IF /\ authenticated[c]
       /\ device_imei[c] # None
       /\ store_ok
       /\ devices[device_imei[c]] # "absent"
    THEN [devices EXCEPT ![device_imei[c]] = "online"]
    ELSE devices

\* variant: the authentication test of handle_location left out
LocationRowsUnchecked(c, parsed, store_ok) ==
    IF store_ok
    THEN <<[imei |-> device_imei[c], latitude |-> parsed.latitude,
            longitude |-> parsed.longitude, gps_valid |-> parsed.gps_valid]>>
    ELSE << >>

\* handle_location: db.add(Location(...)) and db.commit() when the connection
\* is authenticated, the device row is found and the store does not raise
LocationRows(c, parsed, store_ok) ==
    IF /\ authenticated[c]
       /\ device_imei[c] # None
       /\ store_ok
       /\ devices[device_imei[c]] # "absent"
    THEN <<[imei |-> device_imei[c], latitude |-> parsed.latitude,
            longitude |-> parsed.longitude, gps_valid |-> parsed.gps_valid]>>
    ELSE << >>

\* handle_command_response: resolves the installed future when it is not done
UnresolvedWaiter(c) ==
    IF pending_response[c] # NoTask /\ future[pending_response[c]].st = "pending"
    THEN pending_response[c] ELSE NoTask

\* variant: set_result without the done() test
ResolveFutureAnyState(c, parsed, d) ==
    IF pending_response[c] # NoTask
    THEN [future EXCEPT ![pending_response[c]] = [st |-> "done", data |-> parsed, from |-> d]]
    ELSE future

ResolveFuture(c, parsed, d) ==
    IF pending_response[c] # NoTask /\ future[pending_response[c]].st = "pending"
    THEN [future EXCEPT ![pending_response[c]] = [st |-> "done", data |-> parsed, from |-> d]]
    ELSE future

\* the responses create_response builds, computed once
AckTable ==
    {<<p, n, create_response(p, n)>> :
        p \in {WireProto(e[2]) : e \in WireTable}, n \in Serials \cup {0}}
AckFrame(packet_type, serial_number) ==
    IF \E e \in AckTable : e[1] = packet_type /\ e[2] = serial_number
    THEN (CHOOSE e \in AckTable : e[1] = packet_type /\ e[2] = serial_number)[3]
    ELSE create_response(packet_type, serial_number)

SerialOf(parsed) == IF "serial_number" \in DOMAIN parsed THEN parsed.serial_number ELSE 0

\* variant: the command_response branch falls through to the ACK
PacketResponseNoReturn(c, parsed) ==
    IF parsed.type = "none" THEN << >>
    ELSE send_data(c, AckFrame(parsed.protocol, SerialOf(parsed)))

\* the frames handle_packet writes for a parsed packet
PacketResponse(c, parsed) ==
    IF parsed.type \in {"none", "command_response"} THEN << >>
    ELSE send_data(c, AckFrame(parsed.protocol, SerialOf(parsed)))

\* variant: an exception of the store leaves the handler and reaches the
\* except clause of handle_packet, past the response
HandlerResponseStoreRaises(c, parsed, store_ok) ==
    IF store_ok THEN PacketResponse(c, parsed) ELSE << >>

\* each handler catches the exceptions of its store calls, so the response is
\* written whether or not the store failed
HandlerResponse(c, parsed, store_ok) == PacketResponse(c, parsed)

\* variant: self.authenticated = True moved behind db.commit()
LoginAuthenticatedAfterStore(c, store_ok) ==
    IF store_ok THEN [authenticated EXCEPT ![c] = TRUE] ELSE authenticated

\* handle_login: self.authenticated = True, before the store is touched
LoginAuthenticated(c, store_ok) == [authenticated EXCEPT ![c] = TRUE]

\* handle_packet: what it does to the connection, the registry, the store and
\* the pending future
HandleEffect(c, d, store_ok) ==
    LET parsed == parse_packet(WireOf(d), force_south) IN
    /\ device_imei' = IF parsed.type = "login"
                      THEN [device_imei EXCEPT ![c] = parsed.imei] ELSE device_imei
    /\ authenticated' = IF parsed.type = "login"
                        THEN LoginAuthenticated(c, store_ok) ELSE authenticated
    /\ devices' = CASE parsed.type = "login" -> LoginDevices(parsed.imei, store_ok)
                    [] parsed.type \in {"location", "heartbeat"} -> TouchDevices(c, store_ok)
                    [] OTHER -> devices
    /\ device_connections' = IF parsed.type = "login"
                             THEN LoginRegistry(c, parsed.imei, store_ok)
                             ELSE device_connections
    /\ future' = IF parsed.type = "command_response"
                 THEN ResolveFuture(c, parsed, d) ELSE future
    /\ UNCHANGED <<status, command_serial, pending_response, writer_closed, connections,
                   task, force_south, ncmd>>

\* handle_packet: what it writes to the socket and adds to the locations table
HandleStep(c, d, store_ok) ==
    LET parsed == parse_packet(WireOf(d), force_south) IN
    [Step("packet", c, NoTask, d, HandlerResponse(c, parsed, store_ok),
          CASE parsed.type = "login" -> device_connections[parsed.imei]
            [] parsed.type = "command_response" -> UnresolvedWaiter(c)
            [] OTHER -> NoConn,
          store_ok, NoReturn)
        EXCEPT !.stored = IF parsed.type = "location"
                          THEN LocationRows(c, parsed, store_ok) ELSE << >>]

HandlePacket(c, d, store_ok) ==
    /\ status[c] = "open"
    /\ HandleEffect(c, d, store_ok)
    /\ last' = HandleStep(c, d, store_ok)

\* handle_packet on a frame that arrived whole on an empty receive buffer
handle_packet(c, d, store_ok) ==
    /\ HandlePacket(c, d, store_ok)
    /\ UNCHANGED <<framing, apart>>

\* close(): unregister, mark the device offline, close the writer; an exception
\* of the store skips writer.close().  handle_client then discards the connection.
CloseRegistry(c) ==
    IF device_imei[c] # None
    THEN unregister_device(device_connections, device_imei[c])
    ELSE device_connections

CloseDevices(c, store_ok) ==
    IF device_imei[c] # None /\ store_ok /\ devices[device_imei[c]] # "absent"
    THEN [devices EXCEPT ![device_imei[c]] = "offline"]
    ELSE devices

close(c, store_ok) ==
    /\ status[c] = "open"
    /\ device_connections' = CloseRegistry(c)
    /\ devices' = CloseDevices(c, store_ok)
    /\ writer_closed' = [writer_closed EXCEPT ![c] = (device_imei[c] = None \/ store_ok)]
    /\ status' = [status EXCEPT ![c] = "closed"]
    /\ connections' = connections \ {c}
    /\ last' = Step("close", c, NoTask, NoPkt, << >>,
                    IF device_imei[c] # None THEN device_connections[device_imei[c]] ELSE NoConn,
                    store_ok, NoReturn)
    /\ UNCHANGED <<device_imei, authenticated, command_serial, pending_response,
                   future, task, force_south, ncmd, framing, apart>>

\* ------------------------------------------------------ command dispatch
DefaultServerFlag == 1
SerialModulus == 65536

\* variant: the counter stops at 0xFFFF
NextCommandSerialSaturates(serial) ==
    IF serial + 1 < SerialModulus THEN serial + 1 ELSE serial

\* self._command_serial = (self._command_serial + 1) & 0xFFFF
NextCommandSerial(serial) == (serial + 1) % SerialModulus

\* the counter of a connection that has sent all but MaxCommands of a full
\* round of serial numbers
WrapStart == SerialModulus - MaxCommands
\* packet = self.parser.create_command_packet(command, self._command_serial)
CommandTable ==
    {<<cmd, n, create_command_packet(cmd, n, DefaultServerFlag)>> :
        cmd \in Commands,
        n \in {(start + k) % SerialModulus :
                 start \in {CommandSerialStart, WrapStart}, k \in 0..MaxCommands}}
\* variant: the counter passed as server_flag, the serial number left at 1
CommandFrameCounterAsFlag(command, serial) ==
    create_command_packet(command, DefaultServerFlag, serial)

CommandFrame(command, serial) ==
    (CHOOSE e \in CommandTable : e[1] = command /\ e[2] = serial)[3]

\* self._pending_response = loop.create_future()
InstallWaiter(c, t) == [pending_response EXCEPT ![c] = t]

\* finally: self._pending_response = None
ClearWaiter(c, t) == [pending_response EXCEPT ![c] = NoTask]

\* variant: the lookup miss reported as a success
NotConnectedAsSent == [kind |-> "error", success |-> TRUE, error |-> "Device not connected"]

NotConnected == [kind |-> "error", success |-> FALSE, error |-> "Device not connected"]
BuildFailed == [kind |-> "error", success |-> FALSE, error |-> "Failed to build command packet"]
TimedOutNote == "Command sent but device did not reply within timeout. It may still take effect."
TimedOut == [kind |-> "timeout", success |-> TRUE, response |-> None, note |-> TimedOutNote]
Replied(result) ==
    [kind |-> "reply", success |-> TRUE, response |-> result.content,
     server_flag |-> result.server_flag]

\* variant: TimeoutError reported to the caller as a failure
SendCommandResultTimeoutFails(fut) ==
    IF fut.st = "done" THEN Replied(fut.data)
    ELSE [kind |-> "error", success |-> FALSE, error |-> "timeout"]

\* what send_command returns once wait_for has returned or raised TimeoutError
SendCommandResult(fut) == IF fut.st = "done" THEN Replied(fut.data) ELSE TimedOut

RECURSIVE SumOver(_, _)
SumOver(f, S) == IF S = {} THEN 0 ELSE LET x == CHOOSE y \in S : TRUE
                                       IN f[x] + SumOver(f, S \ {x})
CommandsMade == SumOver(ncmd, Conns)

\* send_command_to_device and send_command up to the await of the future;
\* io_ok: writer.write / drain of send_data do not raise (send_data catches
\* and logs the exception and returns)
SendCommandBody(t, imei, command, io_ok) ==
    LET c == device_connections[imei] IN
    /\ task[t].pc = "idle"
    /\ \A u \in Tasks : u < t => task[u].pc # "idle"
    /\ c # NoConn => CommandsMade < MaxCommands
    /\ IF c = NoConn
       THEN /\ task' = [task EXCEPT ![t] = IdleTask]
            /\ last' = Step("send_command", NoConn, t, NoPkt, << >>, NoConn, TRUE,
                            NotConnected)
            /\ UNCHANGED <<command_serial, pending_response, future, ncmd>>
       ELSE LET serial == NextCommandSerial(command_serial[c])
                packet == CommandFrame(command, serial)
            IN /\ command_serial' = [command_serial EXCEPT ![c] = serial]
               /\ ncmd' = [ncmd EXCEPT ![c] = @ + 1]
               /\ IF packet = NoFrame
                  THEN /\ task' = [task EXCEPT ![t] = IdleTask]
                       /\ last' = Step("send_command", c, t, NoPkt, << >>, NoConn, TRUE,
                                       BuildFailed)
                       /\ UNCHANGED <<pending_response, future>>
                  ELSE /\ future' = [future EXCEPT ![t] = [NoFuture EXCEPT !.st = "pending"]]
                       /\ pending_response' = InstallWaiter(c, t)
                       /\ task' = [task EXCEPT ![t] = [pc |-> "waiting", conn |-> c]]
                       /\ last' = Step("send_command", c, t, NoPkt,
                                       IF io_ok THEN send_data(c, packet) ELSE << >>,
                                       pending_response[c], TRUE, NoReturn)
    /\ UNCHANGED <<status, device_imei, authenticated, writer_closed, connections,
                   device_connections, devices, force_south>>

SendCommand(t, imei, command, io_ok) ==
    /\ SendCommandBody(t, imei, command, io_ok)
    /\ UNCHANGED <<framing, apart>>

send_command_to_device(t, imei, command) == SendCommand(t, imei, command, TRUE)

\* the same call when the write of the command frame fails with an I/O error
send_command_write_error(t, imei, command) ==
    /\ device_connections[imei] # NoConn
    /\ CommandsMade < MaxCommands
    /\ CommandFrame(command, NextCommandSerial(command_serial[device_connections[imei]]))
          # NoFrame
    /\ SendCommand(t, imei, command, FALSE)

\* asyncio.wait_for: the deadline passes and the awaited future is cancelled
wait_for_timeout(t) ==
    /\ task[t].pc = "waiting"
    /\ future[t].st = "pending"
    /\ future' = [future EXCEPT ![t].st = "cancelled"]
    /\ last' = Step("timer", task[t].conn, t, NoPkt, << >>, NoConn, TRUE, NoReturn)
    /\ UNCHANGED <<status, device_imei, authenticated, command_serial, pending_response,
                   writer_closed, connections, device_connections, devices, task,
                   force_south, ncmd, framing, apart>>

\* send_command after the await: return the reply or the timeout note; finally
\* clears the connection's waiter slot.  The call is over: its future is
\* dropped and the task can serve the next HTTP request.
send_command_resume(t) ==
    /\ task[t].pc = "waiting"
    /\ future[t].st \in {"done", "cancelled"}
    /\ task' = [task EXCEPT ![t] = IdleTask]
    /\ future' = [future EXCEPT ![t] = NoFuture]
    /\ pending_response' = ClearWaiter(task[t].conn, t)
    /\ last' = Step("resume", task[t].conn, t, future[t].from, << >>,
                    pending_response[task[t].conn],
                    TRUE, SendCommandResult(future[t]))
    /\ UNCHANGED <<status, device_imei, authenticated, command_serial, writer_closed,
                   connections, device_connections, devices, force_south, ncmd, framing, apart>>

Next ==
    \/ \E c \in Conns : handle_client(c)
    \/ \E c \in Conns, d \in Packets : \E store_ok \in StoreOutcomes(d) :
          handle_packet(c, d, store_ok)
    \/ \E c \in Conns, store_ok \in BOOLEAN : close(c, store_ok)
    \/ \E t \in Tasks, imei \in IMEIs, command \in Commands :
          send_command_to_device(t, imei, command)
    \/ \E t \in Tasks : wait_for_timeout(t)
    \/ \E t \in Tasks : send_command_resume(t)

Spec == Init /\ [][Next]_vars

\* ------------------------------------------------------------- the codec
\* ProtocolParser alone: one input of bounded field values is drawn and the
\* codec applied to it, under either value of settings.FORCE_SOUTHERN_HEMISPHERE.
CodecLatitudes == {0, 1, OneDegree, 90 * OneDegree}
CodecLongitudes == {0, 1, 180 * OneDegree}
\* course 0 and 359, each with every value of bits 10, 11 and 12
CodecCourseStatus == {course + 1024 * bits : course \in {0, 359}, bits \in 0..7}
CodecLocationPackets ==
    [kind : {"location"}, lat : CodecLatitudes, lon : CodecLongitudes, speed : {40},
     course_status : CodecCourseStatus, serial : {258}]
CodecAlarmPackets ==
    [kind : {"alarm"}, lat : CodecLatitudes, lon : CodecLongitudes, speed : {0},
     course_status : CodecCourseStatus, terminal_info : {67}, voltage : {4}, gsm : {2},
     alarm : {1}, serial : {258}]
CodecPackets == CodecLocationPackets \cup CodecAlarmPackets
\* create_response requests: the protocol bytes of the inbound packets, an
\* unknown one and 0xFF; serials 0, 1, 0xFF, 0x100, 0x102, 0x0D0A, 0x7878, 0xFFFF
AckProtocols ==
    {PACKET_LOGIN, PACKET_LOCATION, PACKET_HEARTBEAT, PACKET_STRING_INFO, PACKET_ALARM,
     23, 255}
AckSerials == {0, 1, 255, 256, 258, 3338, 30840, 65535}
AckRequests == [kind : {"ack"}, proto : AckProtocols, serial : AckSerials]
CodecInputs == CodecPackets \cup AckRequests

InitCodec ==
    /\ status = [c \in Conns |-> "new"]
    /\ device_imei = [c \in Conns |-> None]
    /\ authenticated = [c \in Conns |-> FALSE]
    /\ command_serial = [c \in Conns |-> CommandSerialStart]
    /\ pending_response = [c \in Conns |-> NoTask]
    /\ writer_closed = [c \in Conns |-> FALSE]
    /\ connections = {}
    /\ device_connections = [i \in IMEIs |-> NoConn]
    /\ devices = [i \in IMEIs |-> "absent"]
    /\ future = [t \in Tasks |-> NoFuture]
    /\ task = [t \in Tasks |-> IdleTask]
    /\ force_south \in BOOLEAN
    /\ ncmd = [c \in Conns |-> 0]
    /\ \E d \in CodecInputs :
          last = Step("input", NoConn, NoTask, d, << >>, NoConn, TRUE, NoReturn)
    /\ buffer = [c \in Conns |-> << >>]
    /\ handle_pc = [c \in Conns |-> "read"]
    /\ handling = [c \in Conns |-> << >>]
    /\ wire = NoWire
    /\ lifespan = Serving
    /\ now = 0
    /\ trips = {}
    /\ trip_seq = 0
    /\ locations = << >>
    /\ device_rows = [d \in TripDevices |-> NoDeviceRow]
    /\ talk = NoTalk

\* parser.parse_packet(packet) on the frame of the input; last.ret is the
\* parsed packet
parse_step ==
    /\ last.op = "input"
    /\ last.pkt \in CodecPackets
    /\ last' = Step("parse", NoConn, NoTask, last.pkt, << >>, NoConn, TRUE,
                    parse_packet(Wire(last.pkt), force_south))
    /\ UNCHANGED <<status, device_imei, authenticated, command_serial, pending_response,
                   writer_closed, connections, device_connections, devices, future,
                   task, force_south, ncmd, framing, apart>>

\* parser.create_response(protocol, serial), and parser.parse_packet on the
\* frame it returns
ack_step ==
    /\ last.op = "input"
    /\ last.pkt \in AckRequests
    /\ LET frame == create_response(last.pkt.proto, last.pkt.serial)
       IN last' = Step("ack", NoConn, NoTask, last.pkt, <<frame>>, NoConn, TRUE,
                       parse_packet(frame, force_south))
    /\ UNCHANGED <<status, device_imei, authenticated, command_serial, pending_response,
                   writer_closed, connections, device_connections, devices, future,
                   task, force_south, ncmd, framing, apart>>

NextCodec ==
    \/ parse_step
    \/ ack_step

SpecCodec == InitCodec /\ [][NextCodec]_vars

\* the same system on a network where a write can fail
NextIO ==
    \/ Next
    \/ \E t \in Tasks, imei \in IMEIs, command \in Commands :
          send_command_write_error(t, imei, command)

SpecIO == Init /\ [][NextIO]_vars

\* ------------------------------------------------------ the serial counter
\* A session that has been up for long: connection 1 is logged in as IMEI_X
\* and its counter is at its first value or MaxCommands short of 0x10000.
InitSerial ==
    /\ status = [c \in Conns |-> IF c = 1 THEN "open" ELSE "new"]
    /\ device_imei = [c \in Conns |-> IF c = 1 THEN HexJoin(IMEI_X) ELSE None]
    /\ authenticated = [c \in Conns |-> c = 1]
    /\ \E serial \in {CommandSerialStart, WrapStart} :
          command_serial = [c \in Conns |-> IF c = 1 THEN serial ELSE CommandSerialStart]
    /\ pending_response = [c \in Conns |-> NoTask]
    /\ writer_closed = [c \in Conns |-> FALSE]
    /\ connections = {1}
    /\ device_connections = [i \in IMEIs |-> IF i = HexJoin(IMEI_X) THEN 1 ELSE NoConn]
    /\ devices = [i \in IMEIs |-> IF i = HexJoin(IMEI_X) THEN "online" ELSE "absent"]
    /\ future = [t \in Tasks |-> NoFuture]
    /\ task = [t \in Tasks |-> IdleTask]
    /\ force_south = FORCE_SOUTHERN_HEMISPHERE
    /\ ncmd = [c \in Conns |-> 0]
    /\ last = Step("init", NoConn, NoTask, NoPkt, << >>, NoConn, TRUE, NoReturn)
    /\ buffer = [c \in Conns |-> << >>]
    /\ handle_pc = [c \in Conns |-> "read"]
    /\ handling = [c \in Conns |-> << >>]
    /\ wire = NoWire
    /\ lifespan = Serving
    /\ now = 0
    /\ trips = {}
    /\ trip_seq = 0
    /\ locations = << >>
    /\ device_rows = [d \in TripDevices |-> NoDeviceRow]
    /\ talk = NoTalk

NextSerial ==
    \/ \E t \in Tasks, imei \in IMEIs, command \in Commands :
          send_command_to_device(t, imei, command)
    \/ \E t \in Tasks, imei \in IMEIs, command \in Commands :
          send_command_write_error(t, imei, command)
    \/ \E c \in Conns, d \in ReplyPackets : handle_packet(c, d, TRUE)
    \/ \E t \in Tasks : wait_for_timeout(t)
    \/ \E t \in Tasks : send_command_resume(t)
    \/ \E c \in Conns, store_ok \in BOOLEAN : close(c, store_ok)

SpecSerial == InitSerial /\ [][NextSerial]_vars

\* --------------------------------------------------- commands and replies
\* One tracker on connection 1, the HTTP callers of send_command and the
\* handler of the connection, with the socket's bytes and the command each
\* reply of the tracker answers recorded in talk.
MaxAcks == 2
RECURSIVE Concat(_)
Concat(frames) == IF frames = << >> THEN << >> ELSE Head(frames) \o Concat(Tail(frames))

\* send_command_to_device; the call's frame goes to the socket and the tracker
\* has a command to answer
talk_send_command(t, imei, command) ==
    LET c == device_connections[imei] IN
    /\ SendCommandBody(t, imei, command, TRUE)
    /\ talk' = IF task'[t].pc = "waiting"
               THEN [talk EXCEPT !.sock[c] = @ \o Concat(last'.wrote),
                                 !.sent[c] = @ \cup {command_serial'[c]},
                                 !.call[t] = command_serial'[c],
                                 !.heard[t] = NoSerial,
                                 !.intime[t] = FALSE,
                                 !.late[t] = FALSE]
               ELSE talk
    /\ UNCHANGED <<framing, lifespan, tripstore>>

\* handle_packet on a heartbeat of the tracker: the ACK goes to the socket
talk_handle_packet(c, d) ==
    /\ talk.acks < MaxAcks
    /\ HandlePacket(c, d, TRUE)
    /\ talk' = [talk EXCEPT !.sock[c] = @ \o Concat(last'.wrote), !.acks = @ + 1]
    /\ UNCHANGED <<framing, lifespan, tripstore>>

\* the tasks inside the send_command call that wrote the command numbered s
CallersOf(c, s) ==
    {t \in Tasks : task[t].pc = "waiting" /\ task[t].conn = c /\ talk.call[t] = s}

\* handle_packet on the tracker's reply d to the command numbered s, which it
\* answers once
talk_command_response(c, s, d) ==
    LET waiter == UnresolvedWaiter(c)
        callers == CallersOf(c, s)
    IN /\ s \in talk.sent[c]
       /\ HandlePacket(c, d, TRUE)
       /\ talk' = [talk EXCEPT
                      !.sent[c] = @ \ {s},
                      !.heard = IF waiter # NoTask THEN [@ EXCEPT ![waiter] = s] ELSE @,
                      !.late = IF waiter # NoTask THEN [@ EXCEPT ![waiter] = (callers = {})]
                               ELSE @,
                      !.intime = [t \in Tasks |->
                                    @[t] \/ (t \in callers /\ future[t].st # "cancelled")]]
       /\ UNCHANGED <<framing, lifespan, tripstore>>

NextTalk ==
    \/ \E t \in Tasks, imei \in IMEIs, command \in Commands :
          talk_send_command(t, imei, command)
    \/ \E c \in Conns, d \in HeartbeatPackets : talk_handle_packet(c, d)
    \/ \E c \in Conns, s \in {e[2] : e \in CommandTable}, d \in ReplyPackets :
          talk_command_response(c, s, d)
    \/ \E t \in Tasks : wait_for_timeout(t)
    \/ \E t \in Tasks : send_command_resume(t)

SpecTalk == InitSerial /\ [][NextTalk]_vars

\* ------------------------------------------------------------ framing
\* GPSTrackerConnection.handle and process_buffer on one connection, fed the
\* byte stream of one tracker in reads of any sizes.
FramedConn == 1

\* bytearray.find(sub): the index of the first occurrence, or -1
Find(buf, sub) ==
    LET hits == {i \in 0..(Len(buf) - Len(sub)) : Slice(buf, i, i + Len(sub)) = sub}
    IN IF hits = {} THEN -1 ELSE CHOOSE i \in hits : \A j \in hits : i <= j

\* variant: the buffer is emptied when it holds no start marker
KeepLastClears(buf) == << >>
\* variant: the buffer is kept whole when it holds no start marker
KeepLastKeeps(buf) == buf

\* buffer[-1:] when the buffer holds more than one byte
KeepLast(buf) == IF Len(buf) > 1 THEN <<buf[Len(buf)]>> ELSE buf

\* one pass of the loop of process_buffer: the buffer it leaves and the packet
\* it hands to handle_packet (NoFrame: the loop ends without one)
ProcessBufferStep(buf) ==
    LET start_index == Find(buf, START_BIT)
        found == IF start_index > 0 THEN Slice(buf, start_index, Len(buf)) ELSE buf
        total_length == At(found, 2) + 5
    IN IF Len(buf) < 7 THEN [buffer |-> buf, packet |-> NoFrame]
       ELSE IF start_index = -1 THEN [buffer |-> KeepLast(buf), packet |-> NoFrame]
       ELSE IF Len(found) < 3 THEN [buffer |-> found, packet |-> NoFrame]
       ELSE IF Len(found) < total_length THEN [buffer |-> found, packet |-> NoFrame]
       ELSE [buffer |-> Slice(found, total_length, Len(found)),
             packet |-> Slice(found, 0, total_length)]

\* process_buffer on a buffer that holds the whole stream: the packets handed
\* to handle_packet, each with the count of stream bytes up to its last one
RECURSIVE OneRead(_, _)
OneRead(buf, total) ==
    LET r == ProcessBufferStep(buf)
    IN IF r.packet = NoFrame THEN << >>
       ELSE <<[packet |-> r.packet, end |-> total - Len(r.buffer)]>>
               \o OneRead(r.buffer, total)

\* the packet as the tracker meant it, if it is one of the trackers' frames
Descriptor(packet) ==
    IF \E e \in WireTable : e[2] = packet
    THEN (CHOOSE e \in WireTable : e[2] = packet)[1]
    ELSE [kind |-> "raw", bytes |-> packet]

\* line noise without a start marker: shorter than the loop's minimum, of
\* exactly that length, and ending in half a marker
Junks == {<< >>, <<0, 13, 10>>, <<0, 0, 0, 0, 0, 0, 0>>, <<0, 0, 0, 0, 0, 0, 120>>}
\* a login, or a login and a heartbeat
FrameRuns ==
    {<< >>} \cup {WireOf(l) : l \in LoginPackets}
       \cup {WireOf(l) \o WireOf(h) : l \in LoginPackets, h \in HeartbeatPackets}
\* a frame of length byte 0: start marker, length, stop marker
RuntFrame == START_BIT \o <<0>> \o STOP_BIT
Tails == {<< >>, RuntFrame}
\* damaged frames: the CRC field off by one, the length byte changed, a
\* login without its IMEI
BadCrc(frame) ==
    Slice(frame, 0, Len(frame) - 4) \o PackH((PacketCrc(frame) + 1) % 65536) \o STOP_BIT
WithLength(frame, n) == <<frame[1], frame[2], n>> \o Slice(frame, 3, Len(frame))
ShortLogin == WireFrame(PACKET_LOGIN, << >>, 1)
\* noise that holds a start marker and a length byte: the loop reads it as the
\* head of a frame of 15 + 5 bytes
FalseStart == START_BIT \o <<15>>
\* a login behind a damaged login (stop marker, length one short, length one
\* long, no IMEI); logins, heartbeats and locations with a wrong CRC
DamagedRuns ==
    LET login == CHOOSE f \in {WireOf(l) : l \in LoginPackets} : TRUE
        heartbeat == CHOOSE f \in {WireOf(h) : h \in HeartbeatPackets} : TRUE
        location == CHOOSE f \in {WireOf(l) : l \in LocationPackets} : TRUE
    IN {WireOf(b) \o login : b \in BadPackets}
          \cup {WithLength(login, 12) \o login, WithLength(login, 14) \o login,
                ShortLogin \o login,
                BadCrc(login), BadCrc(login) \o heartbeat, login \o BadCrc(heartbeat),
                login \o BadCrc(location), FalseStart \o login}
Streams == {j \o f \o t : j \in Junks, f \in FrameRuns, t \in Tails} \cup DamagedRuns

\* a connection accepted on a fresh server, with the bytes its tracker is going
\* to send drawn from streams
InitStream(streams) ==
    /\ status = [c \in Conns |-> "new"]
    /\ device_imei = [c \in Conns |-> None]
    /\ authenticated = [c \in Conns |-> FALSE]
    /\ command_serial = [c \in Conns |-> CommandSerialStart]
    /\ pending_response = [c \in Conns |-> NoTask]
    /\ writer_closed = [c \in Conns |-> FALSE]
    /\ connections = {}
    /\ device_connections = [i \in IMEIs |-> NoConn]
    /\ devices = [i \in IMEIs |-> "absent"]
    /\ future = [t \in Tasks |-> NoFuture]
    /\ task = [t \in Tasks |-> IdleTask]
    /\ force_south = FORCE_SOUTHERN_HEMISPHERE
    /\ ncmd = [c \in Conns |-> 0]
    /\ last = Step("init", NoConn, NoTask, NoPkt, << >>, NoConn, TRUE, NoReturn)
    /\ buffer = [c \in Conns |-> << >>]
    /\ handle_pc = [c \in Conns |-> "read"]
    /\ lifespan = Serving
    /\ now = 0
    /\ trips = {}
    /\ trip_seq = 0
    /\ locations = << >>
    /\ device_rows = [d \in TripDevices |-> NoDeviceRow]
    /\ talk = NoTalk
    /\ handling = [c \in Conns |-> << >>]
    /\ \E stream \in streams :
          wire = [stream |-> stream, arrived |-> 0, framed |-> << >>,
                  dispatched |-> << >>, reference |-> OneRead(stream, Len(stream))]

InitFraming == InitStream(Streams)

\* the largest frame a length byte can announce, buffer[2] + 5
LargestFrame == 255 + 5
Zeros(n) == [i \in 1..n |-> 0]
\* streams longer than the largest frame: noise without a start marker, a
\* frame head that announces 260 bytes in front of 256 bytes, a login and
\* noise, and the same head behind noise and in front of more than a frame's
\* worth of bytes
LongStreams ==
    LET login == CHOOSE f \in {WireOf(l) : l \in LoginPackets} : TRUE
    IN {Zeros(LargestFrame + 40),
        START_BIT \o <<255>> \o Zeros(LargestFrame - 4) \o login \o Zeros(2),
        Zeros(5) \o START_BIT \o <<255>> \o Zeros(LargestFrame + 7)}
\* what a read returns: a few bytes, or all but one byte of the largest frame
ReadSizes == {5, LargestFrame - 1}
InitBuffer == InitStream(LongStreams)

\* handle_packet calls of one connection that can be running at once
MaxInFlight == 2

\* data = await reader.read(1024) returning n bytes; buffer.extend(data)
read(c, n) ==
    /\ status[c] = "open"
    /\ handle_pc[c] = "read"
    /\ wire.arrived + n <= Len(wire.stream)
    /\ buffer' = [buffer EXCEPT ![c] = @ \o Slice(wire.stream, wire.arrived, wire.arrived + n)]
    /\ wire' = [wire EXCEPT !.arrived = @ + n]
    /\ handle_pc' = [handle_pc EXCEPT ![c] = "process"]
    /\ last' = Step("read", c, NoTask, NoPkt, << >>, NoConn, TRUE, NoReturn)
    /\ UNCHANGED <<status, device_imei, authenticated, command_serial, pending_response,
                   writer_closed, connections, device_connections, devices, future,
                   task, force_south, ncmd, handling, apart>>

\* variant: asyncio.create_task(self.handle_packet(packet)), the loop goes on
\* while the handler runs
HandlerSpawned(c) == TRUE

\* await self.handle_packet(packet): the loop goes on when the call has returned
HandlerAwaited(c) == handling[c] = << >>

\* one pass of the loop of process_buffer up to the call of handle_packet; a
\* pass that finds no packet ends the loop and handle goes back to read
process_buffer(c) ==
    LET r == ProcessBufferStep(buffer[c]) IN
    /\ status[c] = "open"
    /\ handle_pc[c] = "process"
    /\ HandlerAwaited(c)
    /\ r.packet # NoFrame => Len(handling[c]) < MaxInFlight
    /\ buffer' = [buffer EXCEPT ![c] = r.buffer]
    /\ IF r.packet = NoFrame
       THEN /\ handle_pc' = [handle_pc EXCEPT ![c] = "read"]
            /\ last' = Step("process", c, NoTask, NoPkt, << >>, NoConn, TRUE, NoReturn)
            /\ UNCHANGED <<handling, wire>>
       ELSE /\ handling' = [handling EXCEPT ![c] = Append(@, r.packet)]
            /\ wire' = [wire EXCEPT !.framed =
                           Append(@, [packet |-> r.packet,
                                      end |-> wire.arrived - Len(r.buffer)])]
            /\ last' = Step("process", c, NoTask, Descriptor(r.packet), << >>, NoConn,
                            TRUE, NoReturn)
            /\ UNCHANGED handle_pc
    /\ UNCHANGED <<status, device_imei, authenticated, command_serial, pending_response,
                   writer_closed, connections, device_connections, devices, future,
                   task, force_south, ncmd, apart>>

\* a handle_packet call made by process_buffer runs and returns
handle_sliced_packet(c, i, store_ok) ==
    /\ i \in 1..Len(handling[c])
    /\ HandlePacket(c, Descriptor(handling[c][i]), store_ok)
    /\ handling' = [handling EXCEPT ![c] = SubSeq(@, 1, i - 1) \o SubSeq(@, i + 1, Len(@))]
    /\ wire' = [wire EXCEPT !.dispatched =
                   Append(@, [packet |-> handling[c][i], at |-> wire.arrived,
                              wrote |-> last'.wrote])]
    /\ UNCHANGED <<buffer, handle_pc, apart>>

\* reader.read() returns b"" once the tracker has sent everything and hung
\* up: handle leaves its loop and closes the connection
read_eof(c, store_ok) ==
    /\ handle_pc[c] = "read"
    /\ wire.arrived = Len(wire.stream)
    /\ close(c, store_ok)

NextFraming ==
    \/ handle_client(FramedConn)
    \/ \E n \in 1..1024 : read(FramedConn, n)
    \/ process_buffer(FramedConn)
    \/ \E i \in 1..MaxInFlight, store_ok \in BOOLEAN :
          handle_sliced_packet(FramedConn, i, store_ok)
    \/ \E store_ok \in BOOLEAN : read_eof(FramedConn, store_ok)

SpecFraming == InitFraming /\ [][NextFraming]_vars
NextBuffer ==
    \/ handle_client(FramedConn)
    \/ \E n \in ReadSizes : read(FramedConn, n)
    \/ process_buffer(FramedConn)
    \/ \E i \in 1..MaxInFlight, store_ok \in BOOLEAN :
          handle_sliced_packet(FramedConn, i, store_ok)
    \/ \E store_ok \in BOOLEAN : read_eof(FramedConn, store_ok)

SpecBuffer == InitBuffer /\ [][NextBuffer]_vars

\* ================================================================ properties
\* fields of the frames the server writes
IsAckFrame(frame) == Len(frame) = 10 /\ At(frame, 2) = 5
AckProto(frame) == At(frame, 3)
AckSerial(frame) == UnpackH(Slice(frame, 4, 6))
IsCommandFrame(frame) == Len(frame) >= 15 /\ At(frame, 3) = PACKET_COMMAND
CommandFrameFlag(frame) == UnpackI(Slice(frame, 5, 9))
CommandFrameSerial(frame) == UnpackH(Tail2(frame, 6))
AcksWritten == {i \in 1..Len(last.wrote) : IsAckFrame(last.wrote[i])}

LoginStep == last.op = "packet" /\ last.pkt.kind = "login"
ReportKinds == {"login", "location", "heartbeat", "alarm"}

\* C1: when a Login for identity X is handled on connection C2 while another
\* connection C1 is registered for X, C1 is closed and no send_command waiter
\* on C1 is left pending.
C1_SupersedeClosesDisplaced ==
    (LoginStep /\ last.store_ok /\ last.displaced \notin {NoConn, last.conn}) =>
        /\ status[last.displaced] = "closed"
        /\ \A t \in Tasks :
              (task[t].pc = "waiting" /\ task[t].conn = last.displaced)
                 => future[t].st # "pending"

\* C2: when a connection closes while the registry maps its identity to another
\* connection, the registry entry is left as it was.
C2_UnregisterOnlyOwnEntry ==
    (last.op = "close" /\ last.displaced \notin {NoConn, last.conn}) =>
        device_connections[device_imei[last.conn]] = last.displaced

\* C3: once a well-formed Login has been handled on a connection, store failure
\* or not, the registry maps the Login's identity to that connection.
C3_LoginRegisters ==
    LoginStep => device_connections[HexJoin(last.pkt.imei)] = last.conn

\* C4: handling a Login, Location, Heartbeat or Alarm packet writes exactly one
\* frame, an ACK whose protocol byte and serial number are those of the inbound
\* frame; no other step writes an ACK.
C4_OneAckPerPacket ==
    /\ (last.op = "packet" /\ last.pkt.kind \in ReportKinds) =>
          /\ Len(last.wrote) = 1
          /\ IsAckFrame(last.wrote[1])
          /\ AckProto(last.wrote[1]) = WireProto(WireOf(last.pkt))
          /\ AckSerial(last.wrote[1]) = last.pkt.serial
    /\ last.op # "packet" => AcksWritten = {}

C4_Witness ==
    /\ last.op = "packet" /\ last.pkt.kind = "heartbeat"
    /\ authenticated[last.conn]
    /\ Len(last.wrote) = 1 /\ AckSerial(last.wrote[1]) = 258

\* C5: handling a CommandReply (0x15) packet writes nothing, with or without a
\* pending waiter.
C5_NoAckForReply ==
    (last.op = "packet" /\ last.pkt.kind = "reply") => last.wrote = << >>

C5_Witness ==
    /\ last.op = "packet" /\ last.pkt.kind = "reply"
    /\ last.displaced # NoTask
    /\ future[last.displaced].st = "done"

\* C6: a Location, Heartbeat, Alarm or CommandReply packet handled on an
\* unauthenticated connection writes no frame.
C6_NoAckBeforeLogin ==
    (/\ last.op = "packet"
     /\ last.pkt.kind \in {"location", "heartbeat", "alarm", "reply"}
     /\ ~authenticated[last.conn]) => last.wrote = << >>

\* C7: a well-framed packet of an unknown protocol writes no frame.
C7_NoAckForUnknown ==
    (last.op = "packet" /\ last.pkt.kind = "unknown") => last.wrote = << >>

\* C8: a send_command call that finds an unresolved waiter installed on its
\* connection writes no frame and leaves that waiter installed.
C8_OneCommandInFlight ==
    (/\ last.op = "send_command"
     /\ last.displaced # NoTask
     /\ future[last.displaced].st = "pending") =>
        /\ last.wrote = << >>
        /\ pending_response[last.conn] = last.displaced

\* C9: a CommandReply that arrives while a waiter is pending resolves it, and
\* the call then returns success with the content and server_flag the device
\* put in the reply frame; a call whose future was not resolved returns the
\* timeout note.
C9_ReplyRoundTrip ==
    /\ (last.op = "packet" /\ last.pkt.kind = "reply" /\ last.displaced # NoTask) =>
          /\ future[last.displaced].st = "done"
          /\ future[last.displaced].from = last.pkt
    /\ (last.op = "resume" /\ last.pkt.kind = "reply") =>
          last.ret = [kind |-> "reply", success |-> TRUE,
                      response |-> last.pkt.content, server_flag |-> last.pkt.flag]
    /\ (last.op = "resume" /\ last.pkt.kind = "none") => last.ret = TimedOut

C9_Witness ==
    /\ last.op = "resume"
    /\ last.pkt.kind = "reply"
    /\ last.ret.kind = "reply"
    /\ last.ret.server_flag = 40961

C11_NotConnectedNoEffect ==
    [][(last'.op = "send_command" /\ last'.conn = NoConn) =>
          /\ last'.ret = [kind |-> "error", success |-> FALSE,
                          error |-> "Device not connected"]
          /\ last'.wrote = << >>
          /\ UNCHANGED <<pending_response, future, task, command_serial, ncmd,
                         status, device_connections>>]_vars

C11_Witness ==
    /\ last.op = "send_command" /\ last.conn = NoConn
    /\ last.ret.success = FALSE
    /\ \E c \in Conns : status[c] = "open" /\ authenticated[c]
    /\ \E t \in Tasks : task[t].pc = "waiting" /\ future[t].st = "pending"

\* C12: when the deadline of a send_command call passes without a reply, the
\* call returns success = true with a null reply and a note, the connection's
\* state is left as it is, and no waiter is installed on it afterwards.
C12_TimeoutIsNotAnError ==
    [][\A t \in Tasks :
          (task[t].pc = "waiting" /\ future[t].st = "cancelled" /\ task'[t].pc = "idle") =>
             /\ last'.ret.success = TRUE
             /\ last'.ret.response = None
             /\ "note" \in DOMAIN last'.ret
             /\ "error" \notin DOMAIN last'.ret
             /\ pending_response'[task[t].conn] = NoTask
             /\ UNCHANGED <<status, authenticated, device_imei, writer_closed,
                            device_connections>>]_vars

C12_Witness ==
    /\ last.op = "resume"
    /\ last.ret.kind = "timeout"
    /\ status[last.conn] = "open"
    /\ authenticated[last.conn]
    /\ device_connections[device_imei[last.conn]] = last.conn

C13_WriteErrorFailsCommand ==
    (last.op = "send_command" /\ last.ret = NoReturn /\ last.wrote = << >>) =>
        /\ status[last.conn] = "closed"
        /\ future[last.task].st # "pending"

\* C19: a Location packet with gps_valid = true handled on an authenticated
\* connection, with the store accepting the write, adds one location row that
\* holds the decoded latitude and longitude.
C19_LocationRowInserted ==
    (/\ last.op = "packet" /\ last.pkt.kind = "location"
     /\ (last.pkt.course_status \div 4096) % 2 = 1
     /\ authenticated[last.conn]
     /\ last.store_ok) =>
        /\ Len(last.stored) = 1
        /\ last.stored[1].latitude
              = parse_location(WireOf(last.pkt), force_south).latitude
        /\ last.stored[1].longitude
              = parse_location(WireOf(last.pkt), force_south).longitude

\* bit k of a 16-bit course/status word
StatusBit(course_status, k) == (course_status \div (2 ^ k)) % 2
ParsedPosition == last.op = "parse" /\ last.pkt.kind \in {"location", "alarm"}

C18_ForcedSouth ==
    (ParsedPosition /\ force_south) =>
        LET off == parse_packet(Wire(last.pkt), FALSE) IN
        /\ last.ret.latitude <= 0
        /\ last.ret.latitude = IF off.latitude > 0 THEN -off.latitude ELSE off.latitude
        /\ [last.ret EXCEPT !.latitude = off.latitude] = off

C18_Witness ==
    /\ ParsedPosition /\ force_south
    /\ last.pkt.kind = "alarm"
    /\ StatusBit(last.pkt.course_status, 10) = 1
    /\ last.pkt.lat = OneDegree
    /\ last.ret.latitude = -OneDegree
    /\ last.ret.longitude = -last.pkt.lon /\ last.pkt.lon > 0

\* C20 as stated: parse_packet applied to the frame create_response(p, s)
\* built yields a packet with protocol p and serial number s.
C20_AckParsesBack ==
    last.op = "ack" =>
        /\ last.ret.type # "none"
        /\ last.ret.protocol = last.pkt.proto
        /\ "serial_number" \in DOMAIN last.ret
        /\ last.ret.serial_number = last.pkt.serial

\* C20 amended: the frame create_response(p, s) builds is 78 78, length 5, p,
\* s big-endian, CRC, 0D 0A; its length satisfies parse_packet's length test,
\* and the CRC in it is the CRC parse_packet calculates over the frame.
C20_AckFrameFields ==
    last.op = "ack" =>
        LET frame == last.wrote[1] IN
        /\ Len(frame) = 10
        /\ Slice(frame, 0, 2) = START_BIT
        /\ Tail2(frame, 2) = STOP_BIT
        /\ Len(frame) = At(frame, 2) + 5
        /\ WireProto(frame) = last.pkt.proto
        /\ WireSerial(frame) = last.pkt.serial
        /\ PacketCrc(frame) = CalculatedCrc(frame)

\* create_response(0x01, 1) = 78 78 05 01 00 01 D9 DC 0D 0A
C20_Witness ==
    /\ last.op = "ack"
    /\ last.pkt.proto = PACKET_LOGIN /\ last.pkt.serial = 1
    /\ last.wrote = << <<120, 120, 5, 1, 0, 1, 217, 220, 13, 10>> >>
    /\ last.ret = NoPacket

\* ------------------------------------------------------------------ framing
\* the offset of the first start marker of the stream, and the tracker's
\* frame that begins there (NoFrame: none does)
FirstStart == Find(wire.stream, START_BIT)
\* the well-formed tracker frame that begins at offset k of the stream
FrameAt(k) ==
    LET at == {e \in WireTable :
                 /\ e[1].kind # "badstop"
                 /\ k >= 0
                 /\ k + Len(e[2]) <= Len(wire.stream)
                 /\ Slice(wire.stream, k, k + Len(e[2])) = e[2]}
    IN IF at = {} THEN NoFrame ELSE (CHOOSE e \in at : TRUE)[2]
LeadingFrame == FrameAt(FirstStart)
\* the well-formed frame at the first start marker at or behind offset k
FrameBehind(k) ==
    LET start == Find(Slice(wire.stream, k, Len(wire.stream)), START_BIT)
    IN IF start = -1 THEN NoFrame ELSE FrameAt(k + start)
DispatchedPackets == [i \in 1..Len(wire.dispatched) |-> wire.dispatched[i].packet]
ReferencePackets == [i \in 1..Len(wire.reference) |-> wire.reference[i].packet]
\* handle has processed everything read so far and waits in reader.read()
Drained == handle_pc[FramedConn] = "read"

\* C15: the bytes before the first start marker of the stream are discarded:
\* the well-formed frame that begins at the marker is the first packet
\* dispatched, it is dispatched once its last byte has been read and
\* processed, never a second time, the reply written to it is one ACK with
\* the frame's protocol byte and serial, and what the buffer holds afterwards
\* are stream bytes behind the frame.
C15_ResyncDispatchesFrame ==
    LeadingFrame # NoFrame =>
       LET frame == LeadingFrame
           end == FirstStart + Len(frame)
       IN /\ wire.dispatched # << >> =>
                /\ wire.dispatched[1].packet = frame
                /\ wire.dispatched[1].at >= end
                /\ wire.dispatched[1].wrote
                      = <<create_response(WireProto(frame), WireSerial(frame))>>
          /\ Cardinality({i \in 1..Len(wire.dispatched) :
                             wire.dispatched[i].packet = frame}) <= 1
          /\ (Drained /\ wire.arrived >= end) =>
                /\ wire.dispatched # << >>
                /\ \E k \in end..wire.arrived :
                      buffer[FramedConn] = Slice(wire.stream, k, wire.arrived)

\* seven bytes of noise precede a login frame that ends the stream; the login
\* has just been dispatched and ACKed and nothing is left in the buffer
C15_Witness ==
    /\ LeadingFrame # NoFrame
    /\ FirstStart = 7
    /\ Len(wire.dispatched) = 1
    /\ wire.dispatched[1].packet = LeadingFrame
    /\ wire.dispatched[1].at = Len(wire.stream)
    /\ IsAckFrame(wire.dispatched[1].wrote[1])
    /\ last.op = "packet"
    /\ buffer[FramedConn] = << >>

\* C16: once every byte of the stream has been read and processed, the
\* packets dispatched are those dispatched when the stream comes in a single
\* read, whatever the sizes of the reads were; and no packet is dispatched
\* (nor its ACK written) before the last byte of its frame has arrived.
C16_SplitDeliveryEquivalent ==
    /\ (Drained /\ wire.arrived = Len(wire.stream)) => DispatchedPackets = ReferencePackets
    /\ \A i \in 1..Len(wire.dispatched) :
          i <= Len(wire.reference) => wire.dispatched[i].at >= wire.reference[i].end

\* C39: once every byte of the stream has been read and processed, every
\* well-formed frame of the stream has been dispatched, whatever bytes came
\* before it (noise with a start marker and a length byte included).
C39_FrameBehindNoiseDispatched ==
    (Drained /\ wire.arrived = Len(wire.stream)) =>
       \A k \in 0..Len(wire.stream) :
          FrameAt(k) # NoFrame =>
             \E i \in 1..Len(wire.dispatched) : wire.dispatched[i].packet = FrameAt(k)

\* C40: every pass of the loop of process_buffer either ends the loop or
\* leaves the buffer at least one byte shorter, and when the loop has ended the
\* buffer holds fewer than 260 bytes: fewer than seven, the last byte of noise,
\* or the head of a frame that has not arrived in full.
C40_BufferBounded ==
    [][last'.op = "process" =>
          /\ (handle_pc'[last'.conn] = "read" \/ Len(buffer'[last'.conn]) < Len(buffer[last'.conn]))
          /\ Len(buffer'[last'.conn]) <= Len(buffer[last'.conn])
          /\ handle_pc'[last'.conn] = "read" =>
                /\ Len(buffer'[last'.conn]) < LargestFrame
                /\ \/ Len(buffer'[last'.conn]) < 7
                   \/ /\ Slice(buffer'[last'.conn], 0, 2) = START_BIT
                      /\ Len(buffer'[last'.conn]) < At(buffer'[last'.conn], 2) + 5]_vars
\* the loop has ended on the head of a 260-byte frame one byte short
C40_Witness ==
    /\ last.op = "process"
    /\ handle_pc[FramedConn] = "read"
    /\ Len(buffer[FramedConn]) = LargestFrame - 1
    /\ wire.arrived > LargestFrame

\* C34: a send_command on a connection moves the connection's counter to the
\* previous value plus one modulo 2^16, 0xFFFF being followed by 0; the
\* command frame it writes carries the new value, which differs from the value
\* the previous command on the connection carried.
C34_SerialWraps ==
    [][(last'.op = "send_command" /\ last'.conn # NoConn) =>
          LET c == last'.conn IN
          /\ command_serial'[c] = (command_serial[c] + 1) % 65536
          /\ command_serial'[c] \in 0..65535
          /\ command_serial[c] = 65535 => command_serial'[c] = 0
          /\ command_serial'[c] # command_serial[c]
          /\ \A i \in 1..Len(last'.wrote) :
                /\ IsCommandFrame(last'.wrote[i])
                /\ CommandFrameSerial(last'.wrote[i]) = command_serial'[c]
          /\ \A o \in Conns \ {c} : command_serial'[o] = command_serial[o]]_vars
\* the command behind the one numbered 0xFFFF has been written with serial 0
C34_Witness ==
    /\ last.op = "send_command"
    /\ last.conn # NoConn
    /\ command_serial[last.conn] = 0
    /\ Len(last.wrote) = 1
    /\ CommandFrameSerial(last.wrote[1]) = 0

\* the bytes are frames one behind the other: start marker, length byte, as
\* many bytes as it announces, stop marker
RECURSIVE WholeFrames(_)
WholeFrames(bytes) ==
    \/ bytes = << >>
    \/ /\ Len(bytes) >= 5
       /\ Slice(bytes, 0, 2) = START_BIT
       /\ At(bytes, 2) + 5 <= Len(bytes)
       /\ Slice(bytes, At(bytes, 2) + 3, At(bytes, 2) + 5) = STOP_BIT
       /\ WholeFrames(Slice(bytes, At(bytes, 2) + 5, Len(bytes)))

\* C31: the bytes written to a connection's socket are whole frames one
\* behind the other, whatever the order of the HTTP callers' and the handler's
\* writes.
C31_WholeFramesOnSocket == \A c \in Conns : WholeFrames(talk.sock[c])
\* an ACK, the frame of a command and an ACK are on the socket, and the
\* command's caller waits
C31_Witness ==
    LET bytes == talk.sock[1] IN
    /\ Len(bytes) > 20
    /\ IsAckFrame(Slice(bytes, 0, 10))
    /\ IsCommandFrame(Slice(bytes, 10, Len(bytes) - 10))
    /\ IsAckFrame(Slice(bytes, Len(bytes) - 10, Len(bytes)))
    /\ \E t \in Tasks : task[t].pc = "waiting" /\ future[t].st = "pending"

\* C35: the reply a send_command call returns is the tracker's reply to the
\* command that call wrote: a reply to an earlier command, handled when the
\* call that wrote it is over, is not what a later call on the connection
\* returns.
C35_LateReplyNotReturned ==
    [][(last'.op = "resume" /\ last'.ret.kind = "reply" /\ talk.late[last'.task]) =>
          talk.heard[last'.task] = talk.call[last'.task]]_vars

\* C36: a send_command call returns the tracker's reply to its command when
\* that reply was handled before the call's deadline, whatever other calls on
\* the connection began, ended or timed out in the meantime.
C36_OverlapKeepsWaiters ==
    [][(last'.op = "resume" /\ talk.intime[last'.task]) =>
          /\ last'.ret.kind = "reply"
          /\ talk.heard[last'.task] = talk.call[last'.task]]_vars

\* ------------------------------------------------------------ the session
\* C25: a command reply handled on a connection that has no unresolved waiter
\* (none installed, or one whose future timed out and was cancelled) writes
\* no frame, stores nothing and leaves the connections, the registry, the
\* store and every future as they were.
C25_LateReplyDiscarded ==
    [][(/\ last'.op = "packet"
        /\ last'.pkt.kind = "reply"
        /\ UnresolvedWaiter(last'.conn) = NoTask)
       => /\ last'.wrote = << >>
          /\ last'.stored = << >>
          /\ UNCHANGED <<status, device_imei, authenticated, command_serial,
                         pending_response, writer_closed, connections,
                         device_connections, devices, future, task, ncmd>>]_vars

\* a reply has just been handled on a connection whose waiter had timed out:
\* the call is still waiting to resume and holds a cancelled future
C25_Witness ==
    /\ last.op = "packet"
    /\ last.pkt.kind = "reply"
    /\ last.wrote = << >>
    /\ pending_response[last.conn] # NoTask
    /\ future[pending_response[last.conn]].st = "cancelled"
    /\ task[pending_response[last.conn]].pc = "waiting"

\* C26: on every connection authenticated holds exactly when device_imei is
\* set, and once authenticated holds it holds in every later state of the
\* connection.
C26_AuthenticatedIffDevice ==
    /\ [](\A c \in Conns : authenticated[c] <=> device_imei[c] # None)
    /\ [][\A c \in Conns : authenticated[c] => authenticated'[c]]_vars

\* a login whose store call failed: the connection is authenticated and has
\* its IMEI, though no device row and no registry entry were written
C26_Witness ==
    /\ last.op = "packet"
    /\ last.pkt.kind = "login"
    /\ ~last.store_ok
    /\ authenticated[last.conn]
    /\ device_imei[last.conn] # None
    /\ devices[device_imei[last.conn]] = "absent"

FailsStructure(packet) ==
    \/ Len(packet) < 7
    \/ Tail2(packet, 2) # STOP_BIT
    \/ Len(packet) # At(packet, 2) + 5
    \/ (At(packet, 3) = PACKET_LOGIN /\ Len(packet) < 15)

\* C28: a sliced packet that fails the structural tests is dropped by
\* handle_packet: nothing is written or stored, no variable of the connection,
\* the registry or the store changes and the connection stays open; and once
\* the stream has been read and processed, the well-formed frame at the next
\* start marker behind the slice has been dispatched next and ACKed with its
\* protocol byte and serial.
C28_MalformedSkipped ==
    /\ [][(last'.op = "packet" /\ FailsStructure(WireOf(last'.pkt)))
           => /\ last'.wrote = << >>
              /\ last'.stored = << >>
              /\ status'[last'.conn] = "open"
              /\ UNCHANGED <<status, device_imei, authenticated, command_serial,
                             pending_response, writer_closed, connections,
                             device_connections, devices, future, task, ncmd,
                             buffer>>]_vars
    /\ [](\A i \in 1..Len(wire.framed) :
            LET next == FrameBehind(wire.framed[i].end)
            IN (/\ FailsStructure(wire.framed[i].packet)
                /\ next # NoFrame
                /\ Drained
                /\ wire.arrived = Len(wire.stream))
               => /\ i + 1 <= Len(wire.dispatched)
                  /\ wire.dispatched[i + 1].packet = next
                  /\ wire.dispatched[i + 1].wrote
                        = <<create_response(WireProto(next), WireSerial(next))>>)

\* a login sliced one byte short (its length byte was 12) was dropped, and the
\* login behind it has just been handled and ACKed
C28_Witness ==
    /\ last.op = "packet"
    /\ last.pkt.kind = "login"
    /\ Len(wire.dispatched) = 2
    /\ Len(wire.dispatched[1].packet) = 17
    /\ FailsStructure(wire.dispatched[1].packet)
    /\ wire.dispatched[1].wrote = << >>
    /\ Len(wire.dispatched[2].wrote) = 1
    /\ IsAckFrame(wire.dispatched[2].wrote[1])
    /\ authenticated[FramedConn]

\* the damaged frames of the streams whose only fault is the CRC field, each
\* with the packet it was made from and the CRC of its bytes, computed once
WrongCrcTable ==
    {<<BadCrc(WireOf(d)), d, CalculatedCrc(BadCrc(WireOf(d)))>> :
        d \in LoginPackets \cup HeartbeatPackets \cup LocationPackets}

\* C29: handle_packet on a packet whose CRC field differs from the CRC of its
\* bytes does what it does, from the same state, on the packet with the
\* right CRC: the same changes of the connection, the registry, the store
\* and the pending future, the same rows stored and the same frames written.
C29_CrcIgnored ==
    [][\A e \in WrongCrcTable :
         (/\ last'.op = "packet"
          /\ last'.pkt = [kind |-> "raw", bytes |-> e[1]]
          /\ e[3] # PacketCrc(e[1]))
         => LET step == HandleStep(last'.conn, e[2], last'.store_ok)
            IN /\ HandleEffect(last'.conn, e[2], last'.store_ok)
               /\ last'.wrote = step.wrote
               /\ last'.stored = step.stored
               /\ last'.displaced = step.displaced]_vars

\* a location report with a wrong CRC, sent after a login, was stored and ACKed
C29_Witness ==
    /\ last.op = "packet"
    /\ last.pkt.kind = "raw"
    /\ \E e \in WrongCrcTable :
          /\ last.pkt.bytes = e[1]
          /\ e[2].kind = "location"
          /\ e[3] # PacketCrc(e[1])
    /\ Len(last.stored) = 1
    /\ Len(last.wrote) = 1
    /\ IsAckFrame(last.wrote[1])

\* C30: on a connection at most one handle_packet call is running; a packet
\* is sliced off the buffer only when every packet sliced before it has been
\* handled, packets are handled in the order they were sliced, and each
\* writes at most one frame, the ACK with its own protocol byte and serial:
\* so the ACKs go out in the order the packets were framed.
C30_PacketsInOrder ==
    /\ Len(handling[FramedConn]) <= 1
    /\ Len(wire.dispatched) + Len(handling[FramedConn]) = Len(wire.framed)
    /\ \A i \in 1..Len(wire.dispatched) :
          /\ wire.dispatched[i].packet = wire.framed[i].packet
          /\ \/ wire.dispatched[i].wrote = << >>
             \/ /\ Len(wire.dispatched[i].wrote) = 1
                /\ IsAckFrame(wire.dispatched[i].wrote[1])
                /\ AckProto(wire.dispatched[i].wrote[1])
                      = WireProto(wire.dispatched[i].packet)
                /\ AckSerial(wire.dispatched[i].wrote[1])
                      = WireSerial(wire.dispatched[i].packet)

\* a login and a heartbeat came in one read; the heartbeat has been sliced
\* off the buffer after the login was handled and ACKed, and waits for its
\* handler
C30_Witness ==
    /\ Len(wire.framed) = 2
    /\ Len(wire.dispatched) = 1
    /\ Len(handling[FramedConn]) = 1
    /\ wire.dispatched[1].at >= wire.framed[2].end
    /\ Len(wire.dispatched[1].wrote) = 1
    /\ IsAckFrame(wire.dispatched[1].wrote[1])
    /\ WireProto(handling[FramedConn][1]) = PACKET_HEARTBEAT

\* ------------------------------------------------------------------ trips
\* The trips API (api/trips.py), trip_service.end_active_trips_for_device and
\* main._trip_stale_checker over the trips, locations and devices tables.
\* Every handler below runs without an await between its reads and its commit
\* (create_trip awaits the geocoder only, between computing the row and adding
\* it), and uvicorn.run starts one process with one event loop, so each is one
\* step.  The columns name, display_name, user_id and start_location_id are not
\* modelled.  Time is counted in ticks; a tracker moves along a line, one unit
\* of distance per tick of its clock.
MaxTime == 2
MaxTrips == 2
MaxLocations == 2
\* settings.TRIP_AUTO_END_STALE_SECONDS, in ticks
StaleTicks == 1
Times == 0..MaxTime
\* a device id with no row in the devices table
UnknownDevice == 2

\* a response of the HTTP API
Http(code, trip_id) == [kind |-> "http", status_code |-> code, trip |-> trip_id]
TripStep(op, d, ret) == Step(op, d, NoTask, NoPkt, << >>, NoConn, TRUE, ret)

\* db.query(Trip).filter(Trip.device_id == device_id, Trip.end_time.is_(None))
ActiveTrips(device_id) == {t \in trips : t.device_id = device_id /\ t.end_time = NoTime}

\* the gps-valid locations of a device with start_time <= timestamp <= end_time,
\* as ids in ascending order of timestamp (rows of one timestamp by id)
RECURSIVE OrderByTimestamp(_)
OrderByTimestamp(ids) ==
    IF ids = {} THEN << >>
    ELSE LET first == CHOOSE i \in ids : \A j \in ids :
                          \/ locations[i].timestamp < locations[j].timestamp
                          \/ locations[i].timestamp = locations[j].timestamp /\ i <= j
         IN  <<first>> \o OrderByTimestamp(ids \ {first})
LocationsInRange(device_id, start_time, end_time) ==
    OrderByTimestamp({i \in 1..Len(locations) :
        /\ locations[i].device_id = device_id
        /\ locations[i].gps_valid
        /\ locations[i].timestamp >= start_time
        /\ locations[i].timestamp <= end_time})

haversine_km(a, b) == IF a >= b THEN a - b ELSE b - a
RECURSIVE SumOfLegs(_, _)
SumOfLegs(ids, i) ==
    IF i > Len(ids) THEN 0
    ELSE haversine_km(locations[ids[i - 1]].pos, locations[ids[i]].pos) + SumOfLegs(ids, i + 1)
compute_distance_for_device_time_range(device_id, start_time, end_time) ==
    LET ids == LocationsInRange(device_id, start_time, end_time)
    IN  [total_distance |-> SumOfLegs(ids, 2), locations |-> ids]

\* the timestamp of the last gps-valid location of the device, NoTime without one
LastGpsValidTimestamp(device_id) ==
    LET ids == {i \in 1..Len(locations) :
                   locations[i].device_id = device_id /\ locations[i].gps_valid}
    IN  IF ids = {} THEN NoTime
        ELSE locations[CHOOSE i \in ids :
                 \A j \in ids : locations[i].timestamp >= locations[j].timestamp].timestamp

\* end_time = last_loc.timestamp if last_loc else datetime.utcnow()
EndTime(last_ts) == IF last_ts = NoTime THEN now ELSE last_ts

\* one trip of the loop of end_active_trips_for_device; compute_ok = FALSE is
\* the except branch of the loop
EndedTrip(trip, by, compute_ok) ==
    LET end_time == EndTime(LastGpsValidTimestamp(trip.device_id))
        r == compute_distance_for_device_time_range(trip.device_id, trip.start_time, end_time)
    IN  IF ~compute_ok
        THEN [trip EXCEPT !.end_time = end_time, !.total_distance_km = 0, !.by = by]
        ELSE [trip EXCEPT !.end_time = end_time,
                          !.total_distance_km = r.total_distance,
                          !.end_location_id =
                              IF r.locations = << >> THEN @ ELSE r.locations[Len(r.locations)],
                          !.by = by]

\* the trips table after end_active_trips_for_device for each device of ds
end_active_trips_for_device(ds, by, compute_ok) ==
    {IF t.device_id \in ds /\ t.end_time = NoTime THEN EndedTrip(t, by, compute_ok) ELSE t :
        t \in trips}

TcpUnchanged ==
    UNCHANGED <<status, device_imei, authenticated, command_serial, pending_response,
                writer_closed, connections, device_connections, devices, future,
                task, force_south, ncmd, framing, lifespan, talk>>

\* a second passes
tick ==
    /\ now < MaxTime
    /\ now' = now + 1
    /\ last' = TripStep("tick", NoConn, NoReturn)
    /\ UNCHANGED <<trips, trip_seq, locations, device_rows>>
    /\ TcpUnchanged

\* handle_login stores the device: last_connect
login_stored(d) ==
    /\ device_rows' = [device_rows EXCEPT ![d].last_connect = now]
    /\ last' = TripStep("login_stored", d, NoReturn)
    /\ UNCHANGED <<now, trips, trip_seq, locations>>
    /\ TcpUnchanged

\* handle_location stores a position: a locations row with the tracker's
\* timestamp, and last_update.  Every query of the trips code filters on
\* gps_valid == True, so only those rows are kept here.  The trackers' clocks
\* show the server's time.
location_stored(d, timestamp, gps_valid) ==
    /\ gps_valid => Len(locations) < MaxLocations
    /\ timestamp = now
    /\ locations' = IF gps_valid
                    THEN Append(locations, [device_id |-> d, timestamp |-> timestamp,
                                            gps_valid |-> TRUE, pos |-> timestamp])
                    ELSE locations
    /\ device_rows' = [device_rows EXCEPT ![d].last_update = now]
    /\ last' = TripStep("location_stored", d, NoReturn)
    /\ UNCHANGED <<now, trips, trip_seq>>
    /\ TcpUnchanged

\* handle_heartbeat stores last_update
heartbeat_stored(d) ==
    /\ device_rows' = [device_rows EXCEPT ![d].last_update = now]
    /\ last' = TripStep("heartbeat_stored", d, NoReturn)
    /\ UNCHANGED <<now, trips, trip_seq, locations>>
    /\ TcpUnchanged

\* the existing-trip test of start_trip; as a variant it finds nothing
ExistingActiveTripUnchecked(device_id) == {}
ExistingActiveTrip(device_id) == ActiveTrips(device_id)

\* POST /trips/start
start_trip(device_id) ==
    /\ IF device_id \notin DOMAIN device_rows
       THEN /\ last' = TripStep("start_trip", device_id, Http(404, NoTrip))
            /\ UNCHANGED <<trips, trip_seq>>
       ELSE IF ExistingActiveTrip(device_id) # {}
       THEN /\ last' = TripStep("start_trip", device_id, Http(400, NoTrip))
            /\ UNCHANGED <<trips, trip_seq>>
       ELSE /\ trip_seq < MaxTrips
            /\ trip_seq' = trip_seq + 1
            /\ trips' = trips \cup {[id |-> trip_seq + 1, device_id |-> device_id,
                                      start_time |-> now, end_time |-> NoTime,
                                      total_distance_km |-> 0, end_location_id |-> NoLocation,
                                      by |-> "start_trip"]}
            /\ last' = TripStep("start_trip", device_id, Http(201, trip_seq + 1))
    /\ UNCHANGED <<now, locations, device_rows>>
    /\ TcpUnchanged

\* POST /trips
create_trip(device_id, start_time, end_time) ==
    /\ LET r == compute_distance_for_device_time_range(device_id, start_time, end_time)
       IN  IF end_time <= start_time
           THEN /\ last' = TripStep("create_trip", device_id, Http(422, NoTrip))
                /\ UNCHANGED <<trips, trip_seq>>
           ELSE IF device_id \notin DOMAIN device_rows
           THEN /\ last' = TripStep("create_trip", device_id, Http(404, NoTrip))
                /\ UNCHANGED <<trips, trip_seq>>
           ELSE IF r.locations = << >>
           THEN /\ last' = TripStep("create_trip", device_id, Http(400, NoTrip))
                /\ UNCHANGED <<trips, trip_seq>>
           ELSE /\ trip_seq < MaxTrips
                /\ trip_seq' = trip_seq + 1
                /\ trips' = trips \cup {[id |-> trip_seq + 1, device_id |-> device_id,
                                          start_time |-> start_time, end_time |-> end_time,
                                          total_distance_km |-> r.total_distance,
                                          end_location_id |-> r.locations[Len(r.locations)],
                                          by |-> "create_trip"]}
                /\ last' = TripStep("create_trip", device_id, Http(201, trip_seq + 1))
    /\ UNCHANGED <<now, locations, device_rows>>
    /\ TcpUnchanged

\* POST /trips/{trip_id}/end; store_ok = FALSE: the commit raises
end_trip_manually(trip_id, device_id, compute_ok, store_ok) ==
    /\ LET found == {t \in trips : t.id = trip_id /\ t.device_id = device_id}
       IN  IF found = {}
           THEN /\ last' = TripStep("end_trip_manually", device_id, Http(404, trip_id))
                /\ UNCHANGED trips
           ELSE IF (CHOOSE t \in found : TRUE).end_time # NoTime
           THEN /\ last' = TripStep("end_trip_manually", device_id, Http(200, trip_id))
                /\ UNCHANGED trips
           ELSE IF ~store_ok
           THEN /\ last' = TripStep("end_trip_manually", device_id, Http(500, trip_id))
                /\ UNCHANGED trips
           ELSE /\ trips' = end_active_trips_for_device({device_id}, "manual", compute_ok)
                /\ last' = TripStep("end_trip_manually", device_id, Http(200, trip_id))
    /\ UNCHANGED <<now, trip_seq, locations, device_rows>>
    /\ TcpUnchanged

\* DELETE /trips/{trip_id}
delete_trip(trip_id, device_id) ==
    /\ LET found == {t \in trips : t.id = trip_id /\ t.device_id = device_id}
       IN  IF found = {}
           THEN /\ last' = TripStep("delete_trip", device_id, Http(404, trip_id))
                /\ UNCHANGED trips
           ELSE /\ trips' = trips \ found
                /\ last' = TripStep("delete_trip", device_id, Http(204, trip_id))
    /\ UNCHANGED <<now, trip_seq, locations, device_rows>>
    /\ TcpUnchanged

\* Device.last_update < cutoff, or last_update IS NULL and last_connect < cutoff;
\* as a variant without the second part
IsStaleNoFallback(row) ==
    row.last_update # NoTime /\ row.last_update < now - StaleTicks
\* variant: <= cutoff
IsStaleAtCutoff(row) ==
    \/ row.last_update # NoTime /\ row.last_update <= now - StaleTicks
    \/ row.last_update = NoTime /\ row.last_connect # NoTime
                              /\ row.last_connect <= now - StaleTicks
IsStale(row) ==
    \/ row.last_update # NoTime /\ row.last_update < now - StaleTicks
    \/ row.last_update = NoTime /\ row.last_connect # NoTime
                              /\ row.last_connect < now - StaleTicks

\* the stale_devices query of _trip_stale_checker
StaleDevices ==
    {d \in DOMAIN device_rows : ActiveTrips(d) # {} /\ IsStale(device_rows[d])}

\* variant: an exception of a pass ends the task
AfterPassRaises(raised) == IF raised THEN "stopped" ELSE "running"
\* except Exception: logger.warning(...), and the loop sleeps again
AfterPass(raised) == "running"

\* one pass of the loop of _trip_stale_checker.  done: the devices whose trips
\* are committed before the pass ends; every stale device, unless the store
\* raises on the way, which the loop logs before it sleeps again
trip_stale_checker(done, compute_ok) ==
    /\ lifespan.watchdog = "running"
    /\ done \subseteq StaleDevices
    /\ trips' = end_active_trips_for_device(done, "watchdog", compute_ok)
    /\ lifespan' = [lifespan EXCEPT !.watchdog = AfterPass(done # StaleDevices)]
    /\ last' = [TripStep("trip_stale_checker", NoConn, NoReturn) EXCEPT
                   !.stored = <<done, StaleDevices>>]
    /\ UNCHANGED <<now, trip_seq, locations, device_rows>>
    /\ UNCHANGED <<status, device_imei, authenticated, command_serial, pending_response,
                   writer_closed, connections, device_connections, devices, future,
                   task, force_south, ncmd, framing, talk>>

\* a pass during which the store works
Sweep == \E compute_ok \in BOOLEAN : trip_stale_checker(StaleDevices, compute_ok)

NextTrips ==
    \/ tick
    \/ \E d \in TripDevices : login_stored(d)
    \/ \E d \in TripDevices, timestamp \in Times, gps_valid \in BOOLEAN :
          location_stored(d, timestamp, gps_valid)
    \/ \E d \in TripDevices : heartbeat_stored(d)
    \/ \E d \in TripDevices \cup {UnknownDevice} : start_trip(d)
    \/ \E d \in TripDevices \cup {UnknownDevice}, start_time \in Times, end_time \in Times :
          create_trip(d, start_time, end_time)
    \/ \E trip_id \in 1..MaxTrips, d \in TripDevices, compute_ok \in BOOLEAN,
          store_ok \in BOOLEAN :
          end_trip_manually(trip_id, d, compute_ok, store_ok)
    \/ \E trip_id \in 1..MaxTrips, d \in TripDevices : delete_trip(trip_id, d)
    \/ \E done \in SUBSET TripDevices, compute_ok \in BOOLEAN :
          trip_stale_checker(done, compute_ok)

SpecTrips == Init /\ [][NextTrips]_vars

\* the loop of _trip_stale_checker sleeps 60 s and runs again for as long as the
\* application serves, whatever a pass raised
SpecTripsFair == Init /\ [][NextTrips]_vars /\ WF_vars(Sweep)

\* ------------------------------------------------- properties of the trips
\* the time the staleness of a device is measured from: last_update, or
\* last_connect when last_update is null
StalenessReference(d) ==
    IF device_rows[d].last_update # NoTime THEN device_rows[d].last_update
    ELSE device_rows[d].last_connect
OlderThanThreshold(d) ==
    StalenessReference(d) # NoTime /\ now - StalenessReference(d) > StaleTicks

\* C21: every trip finalized by the watchdog or by a manual end has
\* end_time >= start_time and a distance >= 0, whatever the timestamps of the
\* device's stored gps-valid positions are.
C21_FinalizedTripOrdered ==
    \A t \in trips :
        t.by \in {"watchdog", "manual"} =>
            t.end_time >= t.start_time /\ t.total_distance_km >= 0

\* C22: every device has at most one open trip, and start_trip on a device that
\* has an open trip is rejected (400) and creates nothing.
C22_AtMostOneOpenTrip ==
    /\ [](\A d \in TripDevices : Cardinality(ActiveTrips(d)) <= 1)
    /\ [][\A d \in TripDevices :
             (last'.op = "start_trip" /\ last'.conn = d /\ ActiveTrips(d) # {}) =>
                 /\ trips' = trips
                 /\ trip_seq' = trip_seq
                 /\ last'.ret.status_code = 400]_vars
\* a start_trip was rejected on a device with an open trip, while an ended trip
\* of the device is stored too
C22_Witness ==
    /\ last.op = "start_trip"
    /\ last.ret.status_code = 400
    /\ \E t \in trips : t.device_id = last.conn /\ t.end_time = NoTime
    /\ \E t \in trips : t.device_id = last.conn /\ t.end_time # NoTime

\* C23: if a device has an open trip and its last_update (last_connect when
\* last_update is null) stays older than the staleness threshold, the device
\* eventually has no open trip; and a pass of the watchdog that ends without
\* an error leaves no open trip on any device it found stale.
C23_StaleTripEnded ==
    /\ \A d \in TripDevices :
          []((ActiveTrips(d) # {} /\ []OlderThanThreshold(d)) => <>(ActiveTrips(d) = {}))
    /\ [][\A d \in TripDevices :
             (/\ last'.op = "trip_stale_checker"
              /\ last'.stored[1] = last'.stored[2]
              /\ ActiveTrips(d) # {}
              /\ OlderThanThreshold(d)) =>
                 \A t \in trips' : t.device_id = d => t.end_time # NoTime]_vars
\* the watchdog has just ended the open trip of a stale device
C23_Witness ==
    /\ last.op = "trip_stale_checker"
    /\ last.stored[1] # {}
    /\ \E t \in trips : t.by = "watchdog" /\ t.device_id \in last.stored[1]
                                         /\ OlderThanThreshold(t.device_id)

\* C33: a pass of the watchdog leaves every open trip of a device whose
\* last_update (last_connect when last_update is null) is not older than the
\* threshold as it was: still open, with the distance it had.
C33_FreshTripsUntouched ==
    [][last'.op = "trip_stale_checker" =>
          \A d \in TripDevices :
             ~OlderThanThreshold(d) =>
                \A t \in trips : (t.device_id = d /\ t.end_time = NoTime) => t \in trips']_vars
\* a pass has run while a device with an open trip was exactly the threshold
\* behind: the trip is open
C33_Witness ==
    /\ last.op = "trip_stale_checker"
    /\ \E d \in TripDevices :
          /\ ActiveTrips(d) # {}
          /\ StalenessReference(d) # NoTime
          /\ now - StalenessReference(d) = StaleTicks

\* --------------------------------------------------------------- shutdown
\* main.lifespan after its yield: the two background tasks are cancelled and
\* awaited, in this order.  Nothing else is done: no connection is visited.
\* trip_stale_task.cancel(); await trip_stale_task
cancel_trip_stale_task ==
    /\ lifespan.pc = "serving"
    /\ lifespan' = [lifespan EXCEPT !.pc = "watchdog_cancelled", !.watchdog = "stopped"]
    /\ last' = Step("cancel_trip_stale_task", NoConn, NoTask, NoPkt, << >>, NoConn, TRUE,
                    NoReturn)
    /\ UNCHANGED <<status, device_imei, authenticated, command_serial, pending_response,
                   writer_closed, connections, device_connections, devices, future,
                   task, force_south, ncmd, framing, tripstore, talk>>

\* tcp_task.cancel(): serve_forever is cancelled inside TCPServer.start and the
\* asyncio Server is closed: it stops listening
cancel_tcp_task ==
    /\ lifespan.pc = "watchdog_cancelled"
    /\ lifespan' = [lifespan EXCEPT !.pc = "server_closed", !.listening = FALSE]
    /\ last' = Step("cancel_tcp_task", NoConn, NoTask, NoPkt, << >>, NoConn, TRUE, NoReturn)
    /\ UNCHANGED <<status, device_imei, authenticated, command_serial, pending_response,
                   writer_closed, connections, device_connections, devices, future,
                   task, force_south, ncmd, framing, tripstore, talk>>

\* the watchdog beside the trackers' reports and the start of trips, up to its
\* cancellation
NextWatchdog ==
    \/ tick
    \/ \E d \in TripDevices : login_stored(d)
    \/ \E d \in TripDevices, timestamp \in Times, gps_valid \in BOOLEAN :
          location_stored(d, timestamp, gps_valid)
    \/ \E d \in TripDevices \cup {UnknownDevice} : start_trip(d)
    \/ \E done \in SUBSET TripDevices, compute_ok \in BOOLEAN :
          trip_stale_checker(done, compute_ok)
    \/ cancel_trip_stale_task

SpecWatchdog == Init /\ [][NextWatchdog]_vars

\* C32: a pass of the watchdog that raises (the store fails before every stale
\* device is done) or whose distance computation fails leaves the watchdog
\* running and lifespan where it was; the watchdog stops running only by the
\* cancellation of its task; and while the application serves, a pass of the
\* watchdog can run.
C32_WatchdogSurvives ==
    /\ [][/\ (last'.op = "trip_stale_checker") =>
                 (lifespan'.watchdog = "running" /\ lifespan' = lifespan)
          /\ (lifespan.watchdog = "running" /\ lifespan'.watchdog # "running") =>
                 (last'.op = "cancel_trip_stale_task")]_vars
    /\ [](lifespan.pc = "serving" => ENABLED Sweep)
\* a pass has raised before the stale device's trip was ended: the trip is
\* open, the watchdog runs and its next pass can run
C32_Witness ==
    /\ last.op = "trip_stale_checker"
    /\ last.stored[1] # last.stored[2]
    /\ \E d \in last.stored[2] : ActiveTrips(d) # {}
    /\ lifespan.watchdog = "running"
    /\ ENABLED Sweep

\* await tcp_task returns and lifespan ends.  Server.wait_closed() returns at
\* once in some versions of asyncio and waits until no connection is left in
\* others (waits); no version closes a connection's socket.
await_tcp_task(waits) ==
    /\ lifespan.pc = "server_closed"
    /\ waits => connections = {}
    /\ lifespan' = [lifespan EXCEPT !.pc = "done"]
    /\ last' = Step("await_tcp_task", NoConn, NoTask, NoPkt, << >>, NoConn, TRUE, NoReturn)
    /\ UNCHANGED <<status, device_imei, authenticated, command_serial, pending_response,
                   writer_closed, connections, device_connections, devices, future,
                   task, force_south, ncmd, framing, tripstore, talk>>

\* the packets of the trackers while the application shuts down
ShutdownPackets == LoginPackets \cup ReplyPackets

NextShutdown ==
    \/ \E c \in Conns : handle_client(c)
    \/ \E c \in Conns, d \in ShutdownPackets : \E store_ok \in StoreOutcomes(d) :
          handle_packet(c, d, store_ok)
    \/ \E c \in Conns, store_ok \in BOOLEAN : close(c, store_ok)
    \/ \E t \in Tasks, imei \in IMEIs, command \in Commands :
          send_command_to_device(t, imei, command)
    \/ \E t \in Tasks : wait_for_timeout(t)
    \/ \E t \in Tasks : send_command_resume(t)
    \/ cancel_trip_stale_task
    \/ cancel_tcp_task
    \/ \E waits \in BOOLEAN : await_tcp_task(waits)

SpecShutdown == Init /\ [][NextShutdown]_vars

\* C24: after the shutdown sequence completes, the listener accepts no new
\* connection, the socket of every live connection has been closed, no
\* send_command caller is left waiting, and the watchdog has stopped.
C24_ShutdownComplete ==
    lifespan.pc = "done" =>
        /\ ~lifespan.listening
        /\ lifespan.watchdog = "stopped"
        /\ \A c \in connections : writer_closed[c]
        /\ \A t \in Tasks : task[t].pc # "waiting"

\* ------------------------------------------- properties of the session's end
\* C38: when a session has ended its socket has been closed, even when the
\* store call that marks the device offline failed during close.
C38_SocketClosedAtEnd ==
    \A c \in Conns : status[c] = "closed" => writer_closed[c]

\* handle_client, handle_packet and close on connections that log in under
\* one identity and then under another
NextRelogin ==
    \/ \E c \in Conns : handle_client(c)
    \/ \E c \in Conns, d \in ReloginPackets, store_ok \in BOOLEAN :
          handle_packet(c, d, store_ok)
    \/ \E c \in Conns, store_ok \in BOOLEAN : close(c, store_ok)

SpecRelogin == Init /\ [][NextRelogin]_vars

\* C37: every connection stored in the registry is a live connection of the
\* server's connection set: after a connection has closed no registry entry
\* refers to it, whatever packets it received.
C37_RegistryHoldsLiveConnections ==
    \A imei \in IMEIs :
        device_connections[imei] # NoConn => device_connections[imei] \in connections

====
